---- MODULE Spec2Model ----
(***************************************************************************)
(* Model of the document verifier and the dataset generator of            *)
(* DonPenguini/AI-Labs:                                                    *)
(*   finetuning/agent_2_document_verifier/graph_rag.py                     *)
(*       DocumentVerifierRAG (the fidelity scorer)                         *)
(*   finetuning/agent_2_document_verifier/run_verification.py              *)
(*       DocumentVerifier.batch_verify (the batch driver)                  *)
(*   training_dataset/agent_1_document_interpreter/extend_dataset.py       *)
(*       DiversityManager, SimulationGenerator.generate_dataset            *)
(*                                                                         *)
(* Scores are Python floats and are modelled bit-exactly.  Strings that    *)
(* are only embedded are opaque; strings that are lower-cased or searched  *)
(* are sequences of characters.                                            *)
(***************************************************************************)
EXTENDS Integers, Sequences, FiniteSets, TLC

VARIABLES pc, call, ret, hash_seed, f_in, line_num, f_out, stdout,
          verdicts, gen, diversity, targets, numpy_promotion

vars == << pc, call, ret, hash_seed, f_in, line_num, f_out, stdout,
          verdicts, gen, diversity, targets, numpy_promotion >>

(***************************************************************************)
(* Python floats (IEEE-754 binary64, round-to-nearest-even).  A finite     *)
(* non-negative float v is held exactly as the natural number v * 2^65,    *)
(* written little-endian in limbs of 13 bits; every float the scorer       *)
(* produces is either 0 or at least 2^-12, so v * 2^65 is an integer.      *)
(***************************************************************************)
LimbBase == 8192

LimbBits == 13

FracLimbs == 5

GuardLimbs == 2

MantissaBits == 53

RECURSIVE Pow2Int(_)
Pow2Int(n) == IF n = 0 THEN 1 ELSE 2 * Pow2Int(n - 1)

RECURSIVE BigNorm(_)
BigNorm(x) ==
    IF x = << >> THEN << >>
    ELSE IF x[Len(x)] = 0 THEN BigNorm(SubSeq(x, 1, Len(x) - 1))
    ELSE x

Zeros(n) == [i \in 1..n |-> 0]

ShiftLeftLimbs(x, n) == IF x = << >> THEN << >> ELSE Zeros(n) \o x

ShiftRightLimbs(x, n) == IF Len(x) <= n THEN << >> ELSE SubSeq(x, n + 1, Len(x))

Limb(x, i) == IF i <= Len(x) THEN x[i] ELSE 0

RECURSIVE BigAddCarry(_, _, _, _)
BigAddCarry(x, y, i, carry) ==
    IF i > Len(x) /\ i > Len(y)
    THEN IF carry = 0 THEN << >> ELSE << carry >>
    ELSE LET s == Limb(x, i) + Limb(y, i) + carry
         IN  << s % LimbBase >> \o BigAddCarry(x, y, i + 1, s \div LimbBase)

BigAdd(x, y) == BigNorm(BigAddCarry(x, y, 1, 0))

RECURSIVE BigMulSmallCarry(_, _, _, _)
BigMulSmallCarry(x, k, i, carry) ==
    IF i > Len(x)
    THEN IF carry = 0 THEN << >> ELSE << carry >>
    ELSE LET s == x[i] * k + carry
         IN  << s % LimbBase >> \o BigMulSmallCarry(x, k, i + 1, s \div LimbBase)

BigMulSmall(x, k) == BigNorm(BigMulSmallCarry(x, k, 1, 0))

RECURSIVE BigMulFrom(_, _, _)
BigMulFrom(x, y, i) ==
    IF i > Len(y) THEN << >>
    ELSE BigAdd(ShiftLeftLimbs(BigMulSmall(x, y[i]), i - 1), BigMulFrom(x, y, i + 1))

BigMul(x, y) == BigMulFrom(x, y, 1)

\* Long division by a small k, from the top limb down: [quot, rem].
RECURSIVE BigDivSmallFrom(_, _, _, _)
BigDivSmallFrom(x, k, i, rem) ==
    IF i = 0 THEN [quot |-> << >>, rem |-> rem]
    ELSE LET cur  == rem * LimbBase + x[i]
             rest == BigDivSmallFrom(x, k, i - 1, cur % k)
         IN  [quot |-> rest.quot \o << cur \div k >>, rem |-> rest.rem]

BigDivSmall(x, k) ==
    LET r == BigDivSmallFrom(x, k, Len(x), 0)
    IN  [quot |-> BigNorm(r.quot), rem |-> r.rem]

RECURSIVE BigCmpFrom(_, _, _)
BigCmpFrom(x, y, i) ==
    IF i = 0 THEN 0
    ELSE IF x[i] < y[i] THEN -1
    ELSE IF x[i] > y[i] THEN 1
    ELSE BigCmpFrom(x, y, i - 1)

BigCmp(x, y) ==
    IF Len(x) < Len(y) THEN -1
    ELSE IF Len(x) > Len(y) THEN 1
    ELSE BigCmpFrom(x, y, Len(x))

RECURSIVE IntBitLen(_)
IntBitLen(n) == IF n = 0 THEN 0 ELSE 1 + IntBitLen(n \div 2)

BigBitLen(x) ==
    IF x = << >> THEN 0 ELSE (Len(x) - 1) * LimbBits + IntBitLen(x[Len(x)])

BigPow2(n) == Zeros(n \div LimbBits) \o << Pow2Int(n % LimbBits) >>

\* Round the exact value x (plus a non-zero tail below its last bit when
\* sticky) to 53 significant bits, ties to even.
RoundToDouble(x, sticky) ==
    IF BigBitLen(x) <= MantissaBits THEN x
    ELSE LET d     == BigBitLen(x) - MantissaBits
             a     == d \div LimbBits
             p     == Pow2Int(d % LimbBits)
             low   == BigNorm([i \in 1..(a + 1) |->
                                 IF i <= a THEN x[i] ELSE x[i] % p])
             floor == [i \in 1..Len(x) |->
                         IF i <= a THEN 0
                         ELSE IF i = a + 1 THEN x[i] - (x[i] % p)
                         ELSE x[i]]
             odd   == (x[a + 1] \div p) % 2 = 1
             c     == BigCmp(low, BigPow2(d - 1))
             up    == c > 0 \/ (c = 0 /\ (sticky \/ odd))
         IN  IF up THEN BigAdd(floor, BigPow2(d)) ELSE floor

FloatAdd(x, y) == RoundToDouble(BigAdd(x, y), FALSE)

FloatMul(x, y) == ShiftRightLimbs(RoundToDouble(BigMul(x, y), FALSE), FracLimbs)

\* Python's int / int for 0 <= p and 0 < q below LimbBase: the correctly
\* rounded quotient.  A decimal literal p/q denotes the same float.
IntTrueDiv(p, q) ==
    IF p = 0 THEN << >>
    ELSE LET r == BigDivSmall(ShiftLeftLimbs(<< p >>, FracLimbs + GuardLimbs), q)
         IN  ShiftRightLimbs(RoundToDouble(r.quot, r.rem # 0), GuardLimbs)

FloatHalf(x) == BigDivSmall(x, 2).quot

FloatLt(x, y) == BigCmp(x, y) < 0

FloatLe(x, y) == BigCmp(x, y) <= 0

(***************************************************************************)
(* Bounds of the model.                                                    *)
(***************************************************************************)
MaxSourceItems == 2

MaxSsdItems == 2

(***************************************************************************)
(* The embedding model (SentenceTransformer.encode) and cosine similarity. *)
(* encode is deterministic: a text always gets the same vector.  Vectors   *)
(* are small integer vectors so that every similarity is the cosine of two *)
(* real vectors; a similarity dot/sqrt(nn) is kept exactly as [dot, nn].   *)
(***************************************************************************)
\* The strings of the equation scenarios: four that the extraction patterns
\* produce (joined groups, bare expressions) and two only a candidate holds.
EquationTexts ==
    { "x v*t", "x t v0*t + h", "v*t", "y h", "x = -v*t", "" }

SourceTexts == EquationTexts \ { "x = -v*t", "" }

\* Every string the model embeds.
Texts ==
    EquationTexts \cup
    { "k 5", "k = 5", "x v*t + a*b", "a*b", "Assume no drag", "No drag", "Flat ground",
      "Speed must be positive", "v > 0", "Ignore wind", "Keep t in range" }

Embedding ==
    [s \in Texts |->
        CASE s = "x v*t"                  -> << 1, 1, 0 >>
          [] s = "x t v0*t + h"           -> << 3, 4, 5 >>
          [] s = "v*t"                    -> << 1, 0, 0 >>
          [] s = "y h"                    -> << 0, 0, 1 >>
          [] s = "x = -v*t"               -> << -1, -1, 0 >>
          [] s = ""                       -> << 0, 1, -1 >>
          [] s = "k 5"                    -> << 1, 2, 2 >>
          [] s = "k = 5"                  -> << 2, 4, 5 >>
          [] s = "x v*t + a*b"            -> << 1, 1, 1 >>
          [] s = "a*b"                    -> << 0, 1, 0 >>
          [] s = "Assume no drag"         -> << 1, 0, 0 >>
          [] s = "No drag"                -> << 4, 3, 0 >>
          [] s = "Flat ground"            -> << 3, 4, 0 >>
          [] s = "Speed must be positive" -> << 0, 1, 0 >>
          [] s = "v > 0"                  -> << 0, 4, 3 >>
          [] s = "Ignore wind"            -> << 0, 0, 1 >>
          [] s = "Keep t in range"        -> << 0, 3, 4 >>]

Encode(sentences) == [i \in 1..Len(sentences) |-> Embedding[sentences[i]]]

Dot(u, v) == u[1] * v[1] + u[2] * v[2] + u[3] * v[3]

\* np.dot(a, b) / (np.linalg.norm(a) * np.linalg.norm(b))
CosineSim(u, v) == [dot |-> Dot(u, v), nn |-> Dot(u, u) * Dot(v, v)]

\* max_sim = 0
ZeroSim == [dot |-> 0, nn |-> 1]

SimLess(a, b) ==
    IF a.dot < 0 /\ b.dot >= 0 THEN TRUE
    ELSE IF a.dot >= 0 /\ b.dot < 0 THEN FALSE
    ELSE IF a.dot >= 0 THEN a.dot * a.dot * b.nn < b.dot * b.dot * a.nn
    ELSE a.dot * a.dot * b.nn > b.dot * b.dot * a.nn

\* max(max_sim, sim)
SimMax(max_sim, sim) == IF SimLess(max_sim, sim) THEN sim ELSE max_sim

\* The inner loop: max_sim over all embeddings of the other side.
RECURSIVE MaxSimFrom(_, _, _, _)
MaxSimFrom(emb, others, j, max_sim) ==
    IF j > Len(others) THEN max_sim
    ELSE MaxSimFrom(emb, others, j + 1, SimMax(max_sim, CosineSim(emb, others[j])))

\* Mutant: only the first embedding of the other side is compared.
MaxSim_FirstOnly(emb, others) ==
    IF others = << >> THEN ZeroSim
    ELSE SimMax(ZeroSim, CosineSim(emb, others[1]))

MaxSim(emb, others) == MaxSimFrom(emb, others, 1, ZeroSim)

\* The thresholds, in tenths: max_sim > 0.7 and max_sim > 0.6.
EquationThreshold == 7

AssumptionThreshold == 6

ConstraintThreshold == 6

\* Mutant: the threshold test is inclusive (>=).
SimExceeds_Inclusive(sim, tenths) ==
    sim.dot > 0 /\ 100 * sim.dot * sim.dot >= tenths * tenths * sim.nn

\* How the installed NumPy compares a float32 with a Python float.  The
\* repository pins no NumPy version.  "legacy" (NumPy 1.x): both sides
\* become float64.  "nep50" (NumPy 2 and later): the Python float is taken
\* as a float32.
NumpyPromotions == { "legacy", "nep50" }

\* float32(tenths/10) > tenths/10: the nearest float32 of the threshold lies
\* above it.  A float32 has a 24-bit significand: for the power of two m
\* that puts tenths * m / 10 in [2^23, 2^24), the nearest float32 is n / m
\* with n the integer nearest to tenths * m / 10 (a threshold in tenths is
\* never half way between two).  The float64 threshold is far closer to
\* tenths/10 than the float32 is, so the comparison with the exact
\* threshold decides.  True of 0.6 (float32 0.60000002384), false of 0.7
\* (float32 0.69999998808).
Float32Above(tenths) ==
    LET m == CHOOSE scale \in { Pow2Int(e) : e \in 23..30 } :
                 /\ tenths * scale >= 10 * Pow2Int(23)
                 /\ tenths * scale < 10 * Pow2Int(24)
        below == (tenths * m) \div 10
        n == IF 2 * (tenths * m - 10 * below) > 10 THEN below + 1 ELSE below
    IN  10 * n > tenths * m

\* max_sim > tenths/10, for max_sim the float32 the cosine is computed to.
\* Away from the threshold the exact cosine decides.  A cosine of exactly
\* tenths/10 is computed to float32(tenths/10): under "nep50" the two sides
\* are equal, under "legacy" the float32 is compared as a float64 with the
\* float64 threshold.
SimExceeds(sim, tenths) ==
    /\ sim.dot > 0
    /\ \/ 100 * sim.dot * sim.dot > tenths * tenths * sim.nn
       \/ /\ 100 * sim.dot * sim.dot = tenths * tenths * sim.nn
          /\ numpy_promotion = "legacy"
          /\ Float32Above(tenths)

(***************************************************************************)
(* Float constants of the scorer.                                          *)
(***************************************************************************)
Float(p, q) == IntTrueDiv(p, q)

FloatZero == Float(0, 1)

FloatOne == Float(1, 1)

FloatHalfLit == Float(1, 2)

\* f"Equation: {eq}", f"Parameter: {param}", ...
Entry(tag, text) == << tag, text >>

Entries(tag, texts) == [i \in 1..Len(texts) |-> Entry(tag, texts[i])]

\* The indices i, in order, at which flags[i] = want.
RECURSIVE IndicesFrom(_, _, _)
IndicesFrom(flags, want, i) ==
    IF i > Len(flags) THEN << >>
    ELSE (IF flags[i] = want THEN << i >> ELSE << >>) \o IndicesFrom(flags, want, i + 1)

IndicesOf(flags, want) == IndicesFrom(flags, want, 1)

(***************************************************************************)
(* DocumentVerifierRAG._verify_equations                                   *)
(***************************************************************************)
\* Mutant: a looser equation threshold (0.4).
EquationMatched_Loose(emb, others) == SimExceeds(MaxSim(emb, others), 4)

EquationMatched(emb, others) == SimExceeds(MaxSim(emb, others), EquationThreshold)

\* Mutant: two empty sides score 0.5.
VerifyEquationsBothEmpty_Half ==
    [score |-> FloatHalfLit, missing |-> << >>, extra |-> << >>]

\* if not source_equations and not ssd_equations: return 1.0, [], []
VerifyEquationsBothEmpty == [score |-> FloatOne, missing |-> << >>, extra |-> << >>]

\* Mutant: without source equations the candidate's equations go unreported.
VerifyEquationsNoSource_Silent(ssd_equations) ==
    [score |-> FloatHalfLit, missing |-> << >>, extra |-> << >>]

\* if not source_equations: every SSD equation is extra, score 0.5
VerifyEquationsNoSource(ssd_equations) ==
    [score |-> FloatHalfLit, missing |-> << >>,
     extra |-> Entries("Equation", ssd_equations)]

\* Mutant: the precision of an empty candidate list is 1.
Precision_VacuousOne(matched_ssd, ssd_equations) ==
    IF ssd_equations # << >>
    THEN IntTrueDiv(matched_ssd, Len(ssd_equations))
    ELSE FloatOne

\* precision = matched_ssd / len(ssd_equations) if ssd_equations else 0
Precision(matched_ssd, ssd_equations) ==
    IF ssd_equations # << >>
    THEN IntTrueDiv(matched_ssd, Len(ssd_equations))
    ELSE FloatZero

\* recall = matched_source / len(source_equations) if source_equations else 0
Recall(matched_source, source_equations) ==
    IF source_equations # << >>
    THEN IntTrueDiv(matched_source, Len(source_equations))
    ELSE FloatZero

\* score = (precision + recall) / 2
EquationScore(precision, recall) == FloatHalf(FloatAdd(precision, recall))

\* Per source equation: does its best similarity to a candidate exceed 0.7?
SourceMatches(source_equations, ssd_equations) ==
    LET source_embeddings == Encode(source_equations)
        ssd_embeddings    == Encode(ssd_equations)
    IN  [i \in 1..Len(source_equations) |->
            EquationMatched(source_embeddings[i], ssd_embeddings)]

\* Per candidate equation: does its best similarity to a source exceed 0.7?
SsdMatches(source_equations, ssd_equations) ==
    LET source_embeddings == Encode(source_equations)
        ssd_embeddings    == Encode(ssd_equations)
    IN  [j \in 1..Len(ssd_equations) |->
            EquationMatched(ssd_embeddings[j], source_embeddings)]

\* Mutant: every equation of the side is counted as matched.
MatchedCount_All(flags) == Len(flags)

\* matched_source += 1 / matched_ssd += 1, once per equation over 0.7
MatchedCount(flags) == Len(IndicesOf(flags, TRUE))

\* The two matching loops and the score.
VerifyEquationsMatch(source_equations, ssd_equations) ==
    LET src_ok == SourceMatches(source_equations, ssd_equations)
        ssd_ok == SsdMatches(source_equations, ssd_equations)
        matched_source == MatchedCount(src_ok)
        matched_ssd    == MatchedCount(ssd_ok)
        missing_idx    == IndicesOf(src_ok, FALSE)
        extra_idx      == IndicesOf(ssd_ok, FALSE)
    IN  [score   |-> EquationScore(Precision(matched_ssd, ssd_equations),
                                   Recall(matched_source, source_equations)),
         missing |-> [k \in 1..Len(missing_idx) |->
                        Entry("Equation", source_equations[missing_idx[k]])],
         extra   |-> [k \in 1..Len(extra_idx) |->
                        Entry("Equation", ssd_equations[extra_idx[k]])]]

\* The lists handed to self.embedding_model.encode, in call order: none on
\* the two early returns, both lists otherwise.
EncodeCalls(source_equations, ssd_equations) ==
    IF source_equations = << >> THEN << >>
    ELSE << source_equations, ssd_equations >>

VerifyEquations(source_equations, ssd_equations) ==
    IF source_equations = << >> /\ ssd_equations = << >>
    THEN VerifyEquationsBothEmpty
    ELSE IF source_equations = << >>
    THEN VerifyEquationsNoSource(ssd_equations)
    ELSE VerifyEquationsMatch(source_equations, ssd_equations)

(***************************************************************************)
(* Strings that are lower-cased or searched: sequences of characters.      *)
(***************************************************************************)
\* Characters.  A printable ASCII character stands for itself and "\t",
\* "\n", "\r", "\f" for the four controls; every other character, and the
\* grave accent, which a string of a module cannot hold, is written as its
\* code point: "U+03A9" is GREEK CAPITAL LETTER OMEGA.  The alphabet
\* of the model is the printable ASCII characters, the characters
\* str.isspace() holds of, and three cased letters beyond ASCII with their
\* lower-case forms; the string operators are defined on it alone.

\* The characters str.strip() removes: the 29 characters str.isspace()
\* holds of.
Whitespace ==
    {
      " ", "\t", "\n", "\r", "\f", "U+000B", "U+001C", "U+001D", "U+001E",
      "U+001F", "U+0085", "U+00A0", "U+1680", "U+2000", "U+2001", "U+2002",
      "U+2003", "U+2004", "U+2005", "U+2006", "U+2007", "U+2008", "U+2009",
      "U+200A", "U+2028", "U+2029", "U+202F", "U+205F", "U+3000" }

\* The characters of the alphabet str.lower() leaves as they are.
Uncased ==
    Whitespace \cup
    {
      "!", "\"", "#", "$", "%", "&", "'", "(", ")", "*", "+", ",", "-", ".",
      "/", "0", "1", "2", "3", "4", "5", "6", "7", "8", "9", ":", ";", "<",
      "=", ">", "?", "@", "[", "\\", "]", "^", "_", "U+0060", "a", "b", "c", "d",
      "e", "f", "g", "h", "i", "j", "k", "l", "m", "n", "o", "p", "q", "r",
      "s", "t", "u", "v", "w", "x", "y", "z", "{", "|", "}", "~",
      "U+03C9", "U+03B4", "U+00E9" }

\* str.lower(), one character
LowerChar(c) ==
    CASE c = "A" -> "a"
      [] c = "B" -> "b"
      [] c = "C" -> "c"
      [] c = "D" -> "d"
      [] c = "E" -> "e"
      [] c = "F" -> "f"
      [] c = "G" -> "g"
      [] c = "H" -> "h"
      [] c = "I" -> "i"
      [] c = "J" -> "j"
      [] c = "K" -> "k"
      [] c = "L" -> "l"
      [] c = "M" -> "m"
      [] c = "N" -> "n"
      [] c = "O" -> "o"
      [] c = "P" -> "p"
      [] c = "Q" -> "q"
      [] c = "R" -> "r"
      [] c = "S" -> "s"
      [] c = "T" -> "t"
      [] c = "U" -> "u"
      [] c = "V" -> "v"
      [] c = "W" -> "w"
      [] c = "X" -> "x"
      [] c = "Y" -> "y"
      [] c = "Z" -> "z"
      [] c = "U+03A9" -> "U+03C9"
      [] c = "U+0394" -> "U+03B4"
      [] c = "U+00C9" -> "U+00E9"
      [] c \in Uncased -> c

\* str.lower()
Lower(str) == [i \in 1..Len(str) |-> LowerChar(str[i])]

\* needle in hay (substring test; the empty string is in every string)
Contains(hay, needle) ==
    \E i \in 0..(Len(hay) - Len(needle)) :
        SubSeq(hay, i + 1, i + Len(needle)) = needle

\* item in list
InList(item, list) == \E i \in 1..Len(list) : list[i] = item

\* [f(x) for x in list]
LowerAll(list) == [i \in 1..Len(list) |-> Lower(list[i])]

(***************************************************************************)
(* DocumentVerifierRAG._verify_parameters                                  *)
(***************************************************************************)
\* Mutant: only an exact lower-case match rescues a source parameter.
ParameterMissing_ExactOnly(param, ssd_parameters) ==
    ~InList(Lower(param), LowerAll(ssd_parameters))

\* Missing: not in ssd_params_lower and not a substring of any SSD parameter.
ParameterMissing(param, ssd_parameters) ==
    /\ ~InList(Lower(param), LowerAll(ssd_parameters))
    /\ ~\E k \in 1..Len(ssd_parameters) :
           Contains(Lower(ssd_parameters[k]), Lower(param))

\* Mutant: the raw source text is not consulted.
ParameterExtra_ListOnly(param, source_parameters, source_text) ==
    ~InList(Lower(param), LowerAll(source_parameters))

\* Extra: not in source_params_lower and not anywhere in the source text.
ParameterExtra(param, source_parameters, source_text) ==
    /\ ~InList(Lower(param), LowerAll(source_parameters))
    /\ ~Contains(Lower(source_text), Lower(param))

\* Mutant: a source parameter inside a longer SSD parameter counts as covered.
ParameterCoverage_Substring(source_parameters, ssd_parameters) ==
    IF source_parameters = << >>
    THEN IF ssd_parameters = << >> THEN FloatOne ELSE Float(4, 5)
    ELSE LET hit == [i \in 1..Len(source_parameters) |->
                       ~ParameterMissing(source_parameters[i], ssd_parameters)]
         IN  IntTrueDiv(Len(IndicesOf(hit, TRUE)), Len(source_parameters))

\* Score based on coverage
ParameterCoverage(source_parameters, ssd_parameters) ==
    IF source_parameters = << >>
    THEN IF ssd_parameters = << >> THEN FloatOne ELSE Float(4, 5)
    ELSE LET hit == [i \in 1..Len(source_parameters) |->
                       InList(Lower(source_parameters[i]), LowerAll(ssd_parameters))]
         IN  IntTrueDiv(Len(IndicesOf(hit, TRUE)), Len(source_parameters))

\* Mutant: extras are never penalised.
ParameterPenalty_Never(score, extra) == score

\* Mutant: the penalty is applied once per extra parameter.
ParameterPenalty_PerExtra(score, extra) ==
    IF Len(extra) >= 2 THEN FloatMul(FloatMul(score, Float(4, 5)), Float(4, 5))
    ELSE IF extra # << >> THEN FloatMul(score, Float(4, 5))
    ELSE score

\* if extra: score *= 0.8
ParameterPenalty(score, extra) ==
    IF extra # << >> THEN FloatMul(score, Float(4, 5)) ELSE score

VerifyParameters(source_parameters, ssd_parameters, source_text) ==
    LET is_missing == [i \in 1..Len(source_parameters) |->
                         ParameterMissing(source_parameters[i], ssd_parameters)]
        is_extra   == [j \in 1..Len(ssd_parameters) |->
                         ParameterExtra(ssd_parameters[j], source_parameters, source_text)]
        missing_idx == IndicesOf(is_missing, TRUE)
        extra_idx   == IndicesOf(is_extra, TRUE)
        missing == [k \in 1..Len(missing_idx) |->
                      Entry("Parameter", source_parameters[missing_idx[k]])]
        extra   == [k \in 1..Len(extra_idx) |->
                      Entry("Parameter", ssd_parameters[extra_idx[k]])]
    IN  [score   |-> ParameterPenalty(
                        ParameterCoverage(source_parameters, ssd_parameters), extra),
         missing |-> missing,
         extra   |-> extra]

(***************************************************************************)
(* Bounded input sets.                                                     *)
(***************************************************************************)
SeqsUpTo(S, n) == UNION { [1..k -> S] : k \in 0..n }

\* list(set(...)): the elements are pairwise distinct, in any order.
DistinctSeqsUpTo(S, n) ==
    { q \in SeqsUpTo(S, n) : \A i, j \in 1..Len(q) : i # j => q[i] # q[j] }

\* list(set(items)): every ordering of the set.
Orderings(items) ==
    { q \in [1..Cardinality(items) -> items] :
        \A i, j \in 1..Cardinality(items) : i # j => q[i] # q[j] }

NoReturn == [status |-> "none"]

Returned(value) == [status |-> "returned", value |-> value]

Raised(exc) == [status |-> "raised", exc |-> exc]

BatchIdle == f_in = << >> /\ line_num = 0 /\ f_out = << >> /\ stdout = << >>

\* No verification has been recorded by a verifier session.
SessionIdle == verdicts = << >>

\* No generation loop is running and no diversity manager exists.
NoLoop == [state |-> "none"]

NoManager == [state |-> "none"]

GeneratorIdle == gen = NoLoop /\ diversity = NoManager /\ targets = << >>

(***************************************************************************)
(* DocumentVerifierRAG._verify_assumptions and _verify_constraints         *)
(***************************************************************************)
\* Mutant: the threshold test of the matching loop is inclusive (>=).
MatchSources_Inclusive(tag, source_items, ssd_items, threshold) ==
    LET source_embeddings == Encode(source_items)
        ssd_embeddings    == Encode(ssd_items)
        ok == [i \in 1..Len(source_items) |->
                 SimExceeds_Inclusive(MaxSim(source_embeddings[i], ssd_embeddings),
                                      threshold)]
        missing_idx == IndicesOf(ok, FALSE)
    IN  [score   |-> IntTrueDiv(Len(IndicesOf(ok, TRUE)), Len(source_items)),
         missing |-> [k \in 1..Len(missing_idx) |->
                        Entry(tag, source_items[missing_idx[k]])]]

\* The source-to-candidate matching loop shared by both routines.
MatchSources(tag, source_items, ssd_items, threshold) ==
    LET source_embeddings == Encode(source_items)
        ssd_embeddings    == Encode(ssd_items)
        ok == [i \in 1..Len(source_items) |->
                 SimExceeds(MaxSim(source_embeddings[i], ssd_embeddings), threshold)]
        missing_idx == IndicesOf(ok, FALSE)
    IN  [score   |-> IntTrueDiv(Len(IndicesOf(ok, TRUE)), Len(source_items)),
         missing |-> [k \in 1..Len(missing_idx) |->
                        Entry(tag, source_items[missing_idx[k]])]]

\* Mutant: an empty candidate list scores 0.5, as for constraints.
VerifyAssumptions_HalfFloor(source_assumptions, ssd_assumptions) ==
    IF source_assumptions = << >>
    THEN [score |-> FloatOne, missing |-> << >>]
    ELSE IF ssd_assumptions = << >>
    THEN [score |-> FloatHalfLit, missing |-> Entries("Assumption", source_assumptions)]
    ELSE MatchSources("Assumption", source_assumptions, ssd_assumptions,
                      AssumptionThreshold)

VerifyAssumptions(source_assumptions, ssd_assumptions) ==
    IF source_assumptions = << >>
    THEN [score |-> FloatOne, missing |-> << >>]
    ELSE IF ssd_assumptions = << >>
    THEN [score |-> FloatZero, missing |-> Entries("Assumption", source_assumptions)]
    ELSE MatchSources("Assumption", source_assumptions, ssd_assumptions,
                      AssumptionThreshold)

\* Mutant: an empty candidate list scores 0.0, as for assumptions.
VerifyConstraints_ZeroFloor(source_constraints, ssd_constraints) ==
    IF source_constraints = << >>
    THEN [score |-> FloatOne, missing |-> << >>]
    ELSE IF ssd_constraints = << >>
    THEN [score |-> FloatZero, missing |-> Entries("Constraint", source_constraints)]
    ELSE MatchSources("Constraint", source_constraints, ssd_constraints,
                      ConstraintThreshold)

VerifyConstraints(source_constraints, ssd_constraints) ==
    IF source_constraints = << >>
    THEN [score |-> FloatOne, missing |-> << >>]
    ELSE IF ssd_constraints = << >>
    THEN [score |-> FloatHalfLit, missing |-> Entries("Constraint", source_constraints)]
    ELSE MatchSources("Constraint", source_constraints, ssd_constraints,
                      ConstraintThreshold)

(***************************************************************************)
(* The candidate document: a Python dict.  A dict is a function on the     *)
(* keys it holds; a value is None or a list; a list entry is a dict that   *)
(* holds its key or not, or something that is not a dict.                  *)
(***************************************************************************)
PyNone == [py |-> "None", items |-> << >>]

PyList(items) == [py |-> "list", items |-> items]

PyOther == [py |-> "str", items |-> << >>]

DictEntry(key_value) == [py |-> "dict", has |-> TRUE, val |-> key_value]

EmptyDictEntry(default) == [py |-> "dict", has |-> FALSE, val |-> default]

NotADictEntry(default) == [py |-> "str", has |-> FALSE, val |-> default]

\* d.get(key, default)
DictGet(d, key, default) == IF key \in DOMAIN d THEN d[key] ELSE default

\* [e.get(key, '') for e in ssd_document.get(field, [])]: the list, or the
\* exception the comprehension raises.
GetEntries(ssd_document, field, default) ==
    LET v == DictGet(ssd_document, field, PyList(<< >>))
    IN  IF v.py # "list"
        THEN Raised("TypeError")
        ELSE IF \E i \in 1..Len(v.items) : v.items[i].py # "dict"
        THEN Raised("AttributeError")
        ELSE Returned([i \in 1..Len(v.items) |->
                          IF v.items[i].has THEN v.items[i].val ELSE default])

\* ssd_document.get(field, []) as the matching routines read it: None and
\* the empty list are both false.
GetList(ssd_document, field) == DictGet(ssd_document, field, PyList(<< >>)).items

(***************************************************************************)
(* DocumentVerifierRAG.analyze_source_document on the sample source texts: *)
(* each text with what the extraction finds in it.  list(set(...)) yields  *)
(* a set in an order fixed by the process's string hash seed.              *)
(***************************************************************************)
SampleSources ==
    {
      [text |-> << >>,
       equations |-> { },
       parameters |-> { },
       assumptions |-> << >>,
       constraints |-> << >>],
      [text |-> << "x", " ", "=", " ", "v", "*", "t" >>,
       equations |-> { "v*t", "x v*t" },
       parameters |-> { },
       assumptions |-> << >>,
       constraints |-> << >>],
      [text |-> << "k", " ", "=", " ", "5" >>,
       equations |-> { "k 5" },
       parameters |-> { << "k" >> },
       assumptions |-> << >>,
       constraints |-> << >>],
      [text |-> << "A", "s", "s", "u", "m", "e", " ", "n", "o", " ", "d", "r", "a", "g", ".",
                  " ", "S", "p", "e", "e", "d", " ", "m", "u", "s", "t", " ", "b", "e", " ",
                  "p", "o", "s", "i", "t", "i", "v", "e", ".", " ", "k", " ", "=", " ", "5" >>,
       equations |-> { "k 5" },
       parameters |-> { << "k" >> },
       assumptions |-> << "Assume no drag" >>,
       constraints |-> << "Speed must be positive" >>],
      [text |-> << "x", " ", "=", " ", "v", "*", "t", " ", "+", " ", "a", "*", "b" >>,
       equations |-> { "x v*t + a*b", "v*t", "a*b" },
       parameters |-> { },
       assumptions |-> << >>,
       constraints |-> << >>],
      [text |-> << "m", " ", "(", "k", "g", ")", " ", "a", "n", "d", " ",
                  "L", " ", "(", "c", "m", ")", "\n", "x", " ", "=", " ", "v", "*", "t" >>,
       equations |-> { "v*t", "x v*t" },
       parameters |-> { << "L" >>, << "m" >> },
       assumptions |-> << >>,
       constraints |-> << >>]
    }

\* What the string hash seed of a process that analyses the given texts
\* fixes: for each set of equations and each set of parameters built from
\* them, the order in which the set is iterated.  Every order of a set
\* occurs under some seed, and the orders of two sets are independent.
HashSeeds(texts) ==
    LET sources == { src \in SampleSources : src.text \in texts }
        OrdersOf(sets) ==
            { order \in [sets -> UNION { Orderings(items) : items \in sets }] :
                \A items \in sets : order[items] \in Orderings(items) }
    IN  [equations  : OrdersOf({ src.equations : src \in sources }),
         parameters : OrdersOf({ src.parameters : src \in sources })]

\* list(set(items)) in a process whose seed iterates the sets in these orders
ListOfSet(items, orders) == orders[items]

AnalyzeSourceDocument(source_text, seed) ==
    LET src == CHOOSE x \in SampleSources : x.text = source_text
    IN  [extracted_equations   |-> ListOfSet(src.equations, seed.equations),
         extracted_parameters  |-> ListOfSet(src.parameters, seed.parameters),
         extracted_assumptions |-> src.assumptions,
         extracted_constraints |-> src.constraints]

(***************************************************************************)
(* DocumentVerifierRAG.verify_ssd_fidelity                                 *)
(***************************************************************************)
\* Mutant: the constraint weight is 0.2, so the weights sum to 1.1.
OverallFidelity_WeightTypo(equation_score, param_score, assumption_score, constraint_score) ==
    FloatAdd(FloatAdd(FloatAdd(FloatMul(equation_score, Float(2, 5)),
                               FloatMul(param_score, Float(3, 10))),
                      FloatMul(assumption_score, Float(1, 5))),
             FloatMul(constraint_score, Float(1, 5)))

\* equation_score * 0.4 + param_score * 0.3 + assumption_score * 0.2
\*     + constraint_score * 0.1
OverallFidelity(equation_score, param_score, assumption_score, constraint_score) ==
    FloatAdd(FloatAdd(FloatAdd(FloatMul(equation_score, Float(2, 5)),
                               FloatMul(param_score, Float(3, 10))),
                      FloatMul(assumption_score, Float(1, 5))),
             FloatMul(constraint_score, Float(1, 10)))

\* Mutant: the parameter lists come before the equation lists.
VerifySsdFidelity_ParametersFirst(source_text, ssd_document, seed) ==
    LET source_analysis == AnalyzeSourceDocument(source_text, seed)
        ssd_equations   == GetEntries(ssd_document, "equations", "")
        ssd_parameters  == GetEntries(ssd_document, "parameters", << >>)
        ssd_assumptions == GetList(ssd_document, "assumptions")
        ssd_constraints == GetList(ssd_document, "constraints")
    IN  IF ssd_equations.status = "raised" THEN ssd_equations
        ELSE IF ssd_parameters.status = "raised" THEN ssd_parameters
        ELSE
        LET eqs == VerifyEquations(source_analysis.extracted_equations,
                                   ssd_equations.value)
            par == VerifyParameters(source_analysis.extracted_parameters,
                                    ssd_parameters.value, source_text)
            asm == VerifyAssumptions(source_analysis.extracted_assumptions,
                                     ssd_assumptions)
            con == VerifyConstraints(source_analysis.extracted_constraints,
                                     ssd_constraints)
        IN  Returned(
              [equation_accuracy       |-> eqs.score,
               parameter_completeness  |-> par.score,
               assumption_completeness |-> asm.score,
               constraint_accuracy     |-> con.score,
               missing_elements |-> par.missing \o eqs.missing \o asm.missing
                                        \o con.missing,
               extra_elements   |-> par.extra \o eqs.extra,
               overall_fidelity |-> OverallFidelity(eqs.score, par.score,
                                                    asm.score, con.score)])

VerifySsdFidelity(source_text, ssd_document, seed) ==
    LET source_analysis == AnalyzeSourceDocument(source_text, seed)
        ssd_equations   == GetEntries(ssd_document, "equations", "")
        ssd_parameters  == GetEntries(ssd_document, "parameters", << >>)
        ssd_assumptions == GetList(ssd_document, "assumptions")
        ssd_constraints == GetList(ssd_document, "constraints")
    IN  IF ssd_equations.status = "raised" THEN ssd_equations
        ELSE IF ssd_parameters.status = "raised" THEN ssd_parameters
        ELSE
        LET eqs == VerifyEquations(source_analysis.extracted_equations,
                                   ssd_equations.value)
            par == VerifyParameters(source_analysis.extracted_parameters,
                                    ssd_parameters.value, source_text)
            asm == VerifyAssumptions(source_analysis.extracted_assumptions,
                                     ssd_assumptions)
            con == VerifyConstraints(source_analysis.extracted_constraints,
                                     ssd_constraints)
        IN  Returned(
              [equation_accuracy       |-> eqs.score,
               parameter_completeness  |-> par.score,
               assumption_completeness |-> asm.score,
               constraint_accuracy     |-> con.score,
               missing_elements |-> eqs.missing \o par.missing \o asm.missing
                                        \o con.missing,
               extra_elements   |-> eqs.extra \o par.extra,
               overall_fidelity |-> OverallFidelity(eqs.score, par.score,
                                                    asm.score, con.score)])

(***************************************************************************)
(* SpecEq: one call of _verify_equations on any bounded input.             *)
(***************************************************************************)
InitEq ==
    /\ pc = "ready"
    /\ call \in [fn : { "_verify_equations" },
                 source_equations : DistinctSeqsUpTo(SourceTexts, MaxSourceItems),
                 ssd_equations : SeqsUpTo(EquationTexts, MaxSsdItems)]
    /\ ret = NoReturn
    /\ hash_seed \in HashSeeds({ })
    /\ BatchIdle
    /\ SessionIdle
    /\ GeneratorIdle
    /\ numpy_promotion \in NumpyPromotions

CallVerifyEquations ==
    /\ pc = "ready"
    /\ call.fn = "_verify_equations"
    /\ ret' = [status  |-> "returned",
               value   |-> VerifyEquations(call.source_equations, call.ssd_equations),
               encoded |-> EncodeCalls(call.source_equations, call.ssd_equations)]
    /\ pc' = "returned"
    /\ UNCHANGED << numpy_promotion, call, hash_seed, f_in, line_num, f_out, stdout,
                 verdicts, gen, diversity, targets >>

NextEq == CallVerifyEquations

SpecEq == InitEq /\ [][NextEq]_vars

(***************************************************************************)
(* SpecParam: one call of _verify_parameters.  The source side is a source *)
(* text with the parameters the extraction patterns find in it, in any     *)
(* order (list(set(...))); the candidate side is any bounded list.         *)
(***************************************************************************)
ParamSources ==
    {
      [text |-> << >>,
       parameters |-> { }],
      [text |-> << "n", "o", " ", "w", "i", "n", "d" >>,
       parameters |-> { }],
      [text |-> << "k", " ", "=", " ", "5" >>,
       parameters |-> { << "k" >> }],
      [text |-> << "k", "=", "1", " ", "K", "=", "2" >>,
       parameters |-> { << "K" >>, << "k" >> }],
      [text |-> << "k", "m", " ", "=", " ", "2", " ", "k", "g" >>,
       parameters |-> { << "k", "m" >> }],
      [text |-> << "k", " ", "=", " ", "1", " ", "k", "m" >>,
       parameters |-> { << "k" >> }],
      [text |-> << "m", " ", "2", " ", "a", "n", "d", " ", "K", " ", "3" >>,
       parameters |-> { << "K" >>, << "m" >> }],
      [text |-> << "r", "e", "s", "i", "s", "t", "a", "n", "c", "e", " ", "U+03C9" >>,
       parameters |-> { }]
    }

SsdSymbols ==
    { << "k" >>, << "K" >>, << "m" >>, << "k", "m" >>, << "g" >>, << "w" >>, << >>,
      << "U+03A9" >> }

InitParam ==
    /\ pc = "ready"
    /\ \E src \in ParamSources :
          call \in [fn : { "_verify_parameters" },
                    source_parameters : Orderings(src.parameters),
                    ssd_parameters : SeqsUpTo(SsdSymbols, MaxSsdItems),
                    source_text : { src.text }]
    /\ ret = NoReturn
    /\ hash_seed \in HashSeeds({ })
    /\ BatchIdle
    /\ SessionIdle
    /\ GeneratorIdle
    /\ numpy_promotion = "nep50"

CallVerifyParameters ==
    /\ pc = "ready"
    /\ call.fn = "_verify_parameters"
    /\ ret' = Returned(VerifyParameters(call.source_parameters, call.ssd_parameters,
                                        call.source_text))
    /\ pc' = "returned"
    /\ UNCHANGED << numpy_promotion, call, hash_seed, f_in, line_num, f_out, stdout,
                 verdicts, gen, diversity, targets >>

NextParam == CallVerifyParameters

SpecParam == InitParam /\ [][NextParam]_vars

(***************************************************************************)
(* SpecMatch: one call of _verify_assumptions or of _verify_constraints.   *)
(* The source side holds sentences the extraction classifies as            *)
(* assumptions (resp. constraints), repeats included; the candidate side   *)
(* is any bounded list of sentences.                                       *)
(***************************************************************************)
\* Sentences holding an assumption keyword ("assume", "ignore").
AssumptionSentences == { "Assume no drag", "Ignore wind" }

\* Sentences holding a constraint keyword ("must", "range") and no
\* assumption keyword.
ConstraintSentences == { "Speed must be positive", "Keep t in range" }

SsdSentences ==
    AssumptionSentences \cup ConstraintSentences \cup
    { "No drag", "Flat ground", "v > 0" }

InitMatch ==
    /\ pc = "ready"
    /\ \/ call \in [fn : { "_verify_assumptions" },
                    source_items : SeqsUpTo(AssumptionSentences, MaxSourceItems),
                    ssd_items : SeqsUpTo(SsdSentences, MaxSsdItems)]
       \/ call \in [fn : { "_verify_constraints" },
                    source_items : SeqsUpTo(ConstraintSentences, MaxSourceItems),
                    ssd_items : SeqsUpTo(SsdSentences, MaxSsdItems)]
    /\ ret = NoReturn
    /\ hash_seed \in HashSeeds({ })
    /\ BatchIdle
    /\ SessionIdle
    /\ GeneratorIdle
    /\ numpy_promotion \in NumpyPromotions

CallVerifyAssumptions ==
    /\ pc = "ready"
    /\ call.fn = "_verify_assumptions"
    /\ ret' = Returned(VerifyAssumptions(call.source_items, call.ssd_items))
    /\ pc' = "returned"
    /\ UNCHANGED << numpy_promotion, call, hash_seed, f_in, line_num, f_out, stdout,
                 verdicts, gen, diversity, targets >>

CallVerifyConstraints ==
    /\ pc = "ready"
    /\ call.fn = "_verify_constraints"
    /\ ret' = Returned(VerifyConstraints(call.source_items, call.ssd_items))
    /\ pc' = "returned"
    /\ UNCHANGED << numpy_promotion, call, hash_seed, f_in, line_num, f_out, stdout,
                 verdicts, gen, diversity, targets >>

NextMatch == CallVerifyAssumptions \/ CallVerifyConstraints

SpecMatch == InitMatch /\ [][NextMatch]_vars

(***************************************************************************)
(* Spec: one call of verify_ssd_fidelity on a sample source text and a     *)
(* candidate document assembled from well-formed and malformed fields.     *)
(***************************************************************************)
Absent == [py |-> "absent", items |-> << >>]

EquationFields ==
    { Absent, PyNone, PyList(<< >>),
      PyList(<< DictEntry("k = 5") >>),
      PyList(<< DictEntry("x v*t") >>),
      PyList(<< DictEntry("v*t"), DictEntry("x = -v*t") >>),
      PyList(<< EmptyDictEntry("") >>),
      PyList(<< NotADictEntry("") >>) }

ParameterFields ==
    { Absent, PyNone,
      PyList(<< DictEntry(<< "k" >>) >>),
      PyList(<< DictEntry(<< "K" >>), DictEntry(<< "w" >>) >>),
      PyList(<< EmptyDictEntry(<< >>) >>),
      PyList(<< NotADictEntry(<< >>) >>) }

AssumptionFields ==
    { Absent, PyNone, PyList(<< "No drag" >>), PyList(<< "Flat ground" >>) }

ConstraintFields ==
    { Absent, PyList(<< >>), PyList(<< "v > 0" >>) }

OtherFields == { Absent, PyOther }

\* The dict holding the fields that are not absent.
MakeDoc(fields) ==
    [k \in { key \in DOMAIN fields : fields[key].py # "absent" } |-> fields[k]]

Init ==
    /\ pc = "ready"
    /\ \E src \in SampleSources :
       \E e \in EquationFields, p \in ParameterFields, a \in AssumptionFields,
          c \in ConstraintFields, o \in OtherFields :
          call = [fn |-> "verify_ssd_fidelity",
                  source_text |-> src.text,
                  ssd_document |->
                      MakeDoc([equations |-> e, parameters |-> p,
                               assumptions |-> a, constraints |-> c,
                               simulation_name |-> o])]
    /\ ret = NoReturn
    /\ hash_seed \in HashSeeds({ call.source_text })
    /\ BatchIdle
    /\ SessionIdle
    /\ GeneratorIdle
    /\ numpy_promotion \in NumpyPromotions

CallVerifySsdFidelity ==
    /\ pc = "ready"
    /\ call.fn = "verify_ssd_fidelity"
    /\ ret' = VerifySsdFidelity(call.source_text, call.ssd_document, hash_seed)
    /\ pc' = ret'.status
    /\ UNCHANGED << numpy_promotion, call, hash_seed, f_in, line_num, f_out, stdout,
                 verdicts, gen, diversity, targets >>

Next == CallVerifySsdFidelity

Spec == Init /\ [][Next]_vars

(***************************************************************************)
(* SpecSession: one verifier object answers a series of verify_ssd_fidelity*)
(* calls; the interpreter process may be started again between calls.      *)
(* Every call is recorded in verdicts with the hash seed of the process    *)
(* that served it.                                                         *)
(***************************************************************************)
MaxCalls == 2

SessionSources ==
    { src.text : src \in { s \in SampleSources :
                              /\ s.equations # { }
                              /\ Cardinality(s.equations) + Cardinality(s.parameters) <= 2 } }

SessionDocuments ==
    { MakeDoc([equations |-> PyList(<< >>), parameters |-> Absent]),
      MakeDoc([equations |-> PyList(<< DictEntry("k = 5") >>),
               parameters |-> PyList(<< DictEntry(<< "k" >>) >>)]),
      MakeDoc([equations |-> PyList(<< DictEntry("v*t"), DictEntry("x = -v*t") >>),
               parameters |-> PyNone]) }

\* Mutant: the analysis of the previous call's source text is used again.
RecordVerification_SharedState(previous, source_text, ssd_document, seed) ==
    LET analysed == IF previous = << >> THEN source_text
                    ELSE previous[Len(previous)].source_text
    IN  [source_text   |-> source_text,
         ssd_document  |-> ssd_document,
         seed          |-> seed,
         inventory     |-> AnalyzeSourceDocument(analysed, seed),
         verdict       |-> VerifySsdFidelity(analysed, ssd_document, seed),
         document_after |-> ssd_document]

\* One call on a verifier that has already served the calls in previous:
\* line 190 analyses source_text afresh, lines 192-207 only read
\* ssd_document, and nothing is stored on self.
RecordVerification(previous, source_text, ssd_document, seed) ==
    [source_text   |-> source_text,
     ssd_document  |-> ssd_document,
     seed          |-> seed,
     inventory     |-> AnalyzeSourceDocument(source_text, seed),
     verdict       |-> VerifySsdFidelity(source_text, ssd_document, seed),
     document_after |-> ssd_document]

InitSession ==
    /\ pc = "ready"
    /\ call = [fn |-> "session"]
    /\ ret = NoReturn
    /\ hash_seed \in HashSeeds(SessionSources)
    /\ BatchIdle
    /\ SessionIdle
    /\ GeneratorIdle
    /\ numpy_promotion \in NumpyPromotions

\* verifier.verify_ssd_fidelity(source_text, ssd_document)
SessionVerify ==
    /\ pc = "ready"
    /\ call.fn = "session"
    /\ Len(verdicts) < MaxCalls
    /\ \E source_text \in SessionSources, ssd_document \in SessionDocuments :
         \E entry \in { RecordVerification(verdicts, source_text, ssd_document,
                                           hash_seed) } :
            /\ verdicts' = Append(verdicts, entry)
            /\ ret' = entry.verdict
    /\ UNCHANGED << numpy_promotion, pc, call, hash_seed, f_in, line_num, f_out, stdout,
                    gen, diversity, targets >>

\* The program is run again: a new interpreter process draws a string hash
\* seed, which fixes the iteration order of every set of strings.
Restart ==
    /\ pc = "ready"
    /\ call.fn = "session"
    /\ hash_seed' \in HashSeeds(SessionSources)
    /\ UNCHANGED << numpy_promotion, pc, call, ret, f_in, line_num, f_out, stdout,
                    verdicts, gen, diversity, targets >>

NextSession == SessionVerify \/ Restart

SpecSession == InitSession /\ [][NextSession]_vars

(***************************************************************************)
(* DocumentVerifier.verify_document and DocumentVerifier.batch_verify      *)
(***************************************************************************)
MaxLines == 3

\* Mutant: 0.7 is already enough for "high_fidelity".
OverallStatus_LowBar(overall_fidelity) ==
    IF ~FloatLt(overall_fidelity, Float(7, 10)) THEN "high_fidelity"
    ELSE "needs_review"

\* "high_fidelity" if overall >= 0.9 else ("acceptable" if overall >= 0.7
\* else "needs_review")
OverallStatus(overall_fidelity) ==
    IF ~FloatLt(overall_fidelity, Float(9, 10)) THEN "high_fidelity"
    ELSE IF ~FloatLt(overall_fidelity, Float(7, 10)) THEN "acceptable"
    ELSE "needs_review"

\* The five scores copied into "fidelity_verification".
FidelityScores(fidelity_result) ==
    [equation_accuracy       |-> fidelity_result.equation_accuracy,
     parameter_completeness  |-> fidelity_result.parameter_completeness,
     assumption_completeness |-> fidelity_result.assumption_completeness,
     constraint_accuracy     |-> fidelity_result.constraint_accuracy,
     overall_fidelity        |-> fidelity_result.overall_fidelity]

\* What the language model does: its text parses as JSON, its text does not
\* (the scorer's result is the fallback), or the tokenizer or the generation
\* raises.
LlmOutputs == { "json", "not_json", "raises" }

\* verify_document from line 71 on, given the outcome of the scorer's call
\* of line 69 and what the language model does: the result record, the
\* exception verify_ssd_fidelity raised, or the language model's.
DocumentOutcome(source_document, ssd_document, seed, fidelity, llm_output) ==
    IF fidelity.status = "raised" THEN fidelity
    ELSE IF llm_output = "raises" THEN Raised("RuntimeError")
    ELSE Returned(
           [source_document |-> source_document,
            ssd_document |-> ssd_document,
            source_analysis |-> AnalyzeSourceDocument(source_document, seed),
            fidelity_verification |-> FidelityScores(fidelity.value),
            llm_verification |->
                IF llm_output = "json" THEN "llm_json" ELSE "graph_rag_fallback",
            overall_status |-> OverallStatus(fidelity.value.overall_fidelity)])

\* verify_document, given what the language model does.
VerifyDocument(source_document, ssd_document, seed, llm_output) ==
    DocumentOutcome(source_document, ssd_document, seed,
                    VerifySsdFidelity(source_document, ssd_document, seed),
                    llm_output)

\* What verify_document prints, given the outcome of the scorer's call: two
\* lines before the scorer runs and a third before the language model runs,
\* which is not reached when the scorer raises.
DocumentProgress(fidelity) ==
    << "Analyzing source document...", "Verifying SSD fidelity to source..." >>
    \o (IF fidelity.status = "raised" THEN << >>
        ELSE << "Running LLM verification..." >>)

\* The lines of the input file: a blank line, a line that is not JSON, a
\* JSON line that is not an object, and JSON objects holding a unit.
BlankLine == [kind |-> "blank", source_document |-> << >>, ssd_document |-> << >>]

BadJsonLine == [kind |-> "bad_json", source_document |-> << >>, ssd_document |-> << >>]

JsonArrayLine == [kind |-> "json_array", source_document |-> << >>, ssd_document |-> << >>]

UnitLine(source_document, ssd_document) ==
    [kind |-> "unit", source_document |-> source_document,
     ssd_document |-> ssd_document]

BatchLines ==
    { BlankLine, BadJsonLine, JsonArrayLine,
      UnitLine(<< "k", " ", "=", " ", "5" >>,
               MakeDoc([equations |-> PyList(<< DictEntry("k = 5") >>),
                        parameters |-> PyList(<< DictEntry(<< "k" >>) >>)])),
      UnitLine(<< >>, MakeDoc([equations |-> PyNone])) }

\* A line printed while input line n is processed: "Verifying document n",
\* the progress lines of verify_document, "Status: ...", "Overall
\* Fidelity: ..." and "Error processing line n".
Printed(what, n) == << what, n >>

PrintedAll(lines, n) == [k \in 1..Len(lines) |-> Printed(lines[k], n)]

InitBatch ==
    /\ pc = "ready"
    /\ call = [fn |-> "batch_verify"]
    /\ ret = NoReturn
    /\ hash_seed \in HashSeeds({ line.source_document :
                                   line \in { l \in BatchLines : l.kind = "unit" } })
    /\ f_in \in SeqsUpTo(BatchLines, MaxLines)
    /\ line_num = 0
    /\ f_out = << >>
    /\ stdout = << >>
    /\ SessionIdle
    /\ GeneratorIdle
    /\ numpy_promotion \in NumpyPromotions

\* with open(input_file, 'r') as f_in, open(output_file, 'w') as f_out
OpenFiles ==
    /\ pc = "ready"
    /\ call.fn = "batch_verify"
    /\ pc' = "loop"
    /\ f_out' = << >>
    /\ UNCHANGED << numpy_promotion, call, ret, hash_seed, f_in, line_num, stdout,
                 verdicts, gen, diversity, targets >>

\* if not line: continue
SkipBlankLine ==
    /\ pc = "loop"
    /\ line_num < Len(f_in)
    /\ f_in[line_num + 1].kind = "blank"
    /\ line_num' = line_num + 1
    /\ UNCHANGED << numpy_promotion, pc, call, ret, hash_seed, f_in, f_out, stdout,
                 verdicts, gen, diversity, targets >>

\* The try block runs to its end: the result is written and reported.
VerifyLine ==
    /\ pc = "loop"
    /\ line_num < Len(f_in)
    /\ f_in[line_num + 1].kind = "unit"
    /\ \E fidelity \in { VerifySsdFidelity(f_in[line_num + 1].source_document,
                                            f_in[line_num + 1].ssd_document,
                                            hash_seed) } :
       \E llm_output \in LlmOutputs :
       \E result \in { DocumentOutcome(f_in[line_num + 1].source_document,
                                       f_in[line_num + 1].ssd_document,
                                       hash_seed, fidelity, llm_output) } :
          /\ result.status = "returned"
          /\ f_out' = Append(f_out, result.value)
          /\ stdout' = stdout
                \o << Printed("Verifying", line_num + 1) >>
                \o PrintedAll(DocumentProgress(fidelity), line_num + 1)
                \o << Printed("Status", line_num + 1),
                      Printed("Overall Fidelity", line_num + 1) >>
    /\ line_num' = line_num + 1
    /\ UNCHANGED << numpy_promotion, pc, call, ret, hash_seed, f_in,
                 verdicts, gen, diversity, targets >>

\* The scorer reaches a call of the embedding provider: the source has
\* equations (the candidate's equations are then encoded too, even an empty
\* list), or it has assumptions or constraints and so has the candidate.
ScorerEncodes(source_text, ssd_document, seed) ==
    LET source_analysis == AnalyzeSourceDocument(source_text, seed)
        ssd_equations   == GetEntries(ssd_document, "equations", "")
        ssd_parameters  == GetEntries(ssd_document, "parameters", << >>)
    IN  /\ ssd_equations.status # "raised"
        /\ ssd_parameters.status # "raised"
        /\ \/ EncodeCalls(source_analysis.extracted_equations,
                          ssd_equations.value) # << >>
           \/ /\ source_analysis.extracted_assumptions # << >>
              /\ GetList(ssd_document, "assumptions") # << >>
           \/ /\ source_analysis.extracted_constraints # << >>
              /\ GetList(ssd_document, "constraints") # << >>

\* What a failing line has printed before "Error processing line n":
\* nothing when the line is not a JSON object; otherwise "Verifying document
\* n" and the progress lines of verify_document, the first two when the
\* scorer raised (by itself, or its embedding provider did), all three when
\* the language model raised.
FailedProgress(line, seed) ==
    IF line.kind # "unit" THEN { << >> }
    ELSE LET progress == DocumentProgress(
                             VerifySsdFidelity(line.source_document,
                                               line.ssd_document, seed))
         IN  { << "Verifying" >> \o SubSeq(progress, 1, reached) :
               reached \in
                 { k \in 2..Len(progress) :
                     k = 2 => \/ Len(progress) = 2
                              \/ ScorerEncodes(line.source_document,
                                               line.ssd_document, seed) } }

\* Mutant: an exception ends the loop.
FailLine_Abort ==
    /\ pc = "loop"
    /\ line_num < Len(f_in)
    /\ f_in[line_num + 1].kind # "blank"
    /\ \E progress \in FailedProgress(f_in[line_num + 1], hash_seed) :
          stdout' = stdout \o PrintedAll(progress, line_num + 1)
                           \o << Printed("Error", line_num + 1) >>
    /\ line_num' = line_num + 1
    /\ pc' = "done"
    /\ ret' = Raised("Exception")
    /\ UNCHANGED << numpy_promotion, call, hash_seed, f_in, f_out,
                 verdicts, gen, diversity, targets >>

\* The try block raises (json.loads, data.get, the scorer, the embedding
\* provider or the language model): except Exception prints and continues.
FailLine ==
    /\ pc = "loop"
    /\ line_num < Len(f_in)
    /\ f_in[line_num + 1].kind # "blank"
    /\ \E progress \in FailedProgress(f_in[line_num + 1], hash_seed) :
          stdout' = stdout \o PrintedAll(progress, line_num + 1)
                           \o << Printed("Error", line_num + 1) >>
    /\ line_num' = line_num + 1
    /\ UNCHANGED << numpy_promotion, pc, call, ret, hash_seed, f_in, f_out,
                 verdicts, gen, diversity, targets >>

\* The for loop is exhausted and the files are closed.
CloseFiles ==
    /\ pc = "loop"
    /\ line_num = Len(f_in)
    /\ pc' = "done"
    /\ ret' = Returned("None")
    /\ UNCHANGED << numpy_promotion, call, hash_seed, f_in, line_num, f_out, stdout,
                 verdicts, gen, diversity, targets >>

NextBatch == OpenFiles \/ SkipBlankLine \/ VerifyLine \/ FailLine \/ CloseFiles

SpecBatch == InitBatch /\ [][NextBatch]_vars

(***************************************************************************)
(* SpecDoc: one call of verify_document on a sample source text and a      *)
(* candidate document, with either outcome of decoding the model's text.   *)
(***************************************************************************)
InitDoc ==
    /\ pc = "ready"
    /\ \E src \in SampleSources :
       \E e \in EquationFields, p \in ParameterFields, a \in AssumptionFields,
          c \in ConstraintFields :
          call = [fn |-> "verify_document",
                  source_document |-> src.text,
                  ssd_document |->
                      MakeDoc([equations |-> e, parameters |-> p,
                               assumptions |-> a, constraints |-> c])]
    /\ ret = NoReturn
    /\ hash_seed \in HashSeeds({ call.source_document })
    /\ BatchIdle
    /\ SessionIdle
    /\ GeneratorIdle
    /\ numpy_promotion \in NumpyPromotions

CallVerifyDocument ==
    /\ pc = "ready"
    /\ call.fn = "verify_document"
    /\ \E fidelity \in { VerifySsdFidelity(call.source_document,
                                            call.ssd_document, hash_seed) } :
          /\ \E llm_output \in LlmOutputs :
                ret' = DocumentOutcome(call.source_document, call.ssd_document,
                                       hash_seed, fidelity, llm_output)
          /\ stdout' = stdout \o DocumentProgress(fidelity)
    /\ pc' = ret'.status
    /\ UNCHANGED << numpy_promotion, call, hash_seed, f_in, line_num, f_out,
                 verdicts, gen, diversity, targets >>

NextDoc == CallVerifyDocument

SpecDoc == InitDoc /\ [][NextDoc]_vars

(***************************************************************************)
(* DocumentVerifierRAG.analyze_source_document: the classification of the  *)
(* sentences of the source text into assumptions and constraints.          *)
(***************************************************************************)
MaxSentences == 3

\* self.constraint_keywords
constraint_keywords ==
    { << "m", "u", "s", "t" >>,
      << "s", "h", "o", "u", "l", "d" >>,
      << "a", "s", "s", "u", "m", "e" >>,
      << "g", "i", "v", "e", "n" >>,
      << "w", "h", "e", "r", "e" >>,
      << "s", "u", "c", "h", " ", "t", "h", "a", "t" >>,
      << "c", "o", "n", "s", "t", "r", "a", "i", "n", "t" >>,
      << "c", "o", "n", "d", "i", "t", "i", "o", "n" >>,
      << "r", "e", "q", "u", "i", "r", "e", "m", "e", "n", "t" >>,
      << "l", "i", "m", "i", "t" >>,
      << "r", "a", "n", "g", "e" >>,
      << "g", "r", "e", "a", "t", "e", "r", " ", "t", "h", "a", "n" >>,
      << "l", "e", "s", "s", " ", "t", "h", "a", "n" >>,
      << "b", "e", "t", "w", "e", "e", "n" >>,
      << "w", "h", "e", "n" >>,
      << "i", "f" >> }

\* self.assumption_keywords
assumption_keywords ==
    { << "a", "s", "s", "u", "m", "e" >>,
      << "a", "s", "s", "u", "m", "i", "n", "g" >>,
      << "a", "s", "s", "u", "m", "p", "t", "i", "o", "n" >>,
      << "i", "g", "n", "o", "r", "e" >>,
      << "n", "e", "g", "l", "i", "g", "i", "b", "l", "e" >>,
      << "i", "d", "e", "a", "l" >>,
      << "c", "o", "n", "s", "t", "a", "n", "t" >>,
      << "u", "n", "i", "f", "o", "r", "m" >>,
      << "s", "t", "e", "a", "d", "y" >>,
      << "h", "o", "m", "o", "g", "e", "n", "e", "o", "u", "s" >>,
      << "c", "o", "n", "s", "i", "d", "e", "r" >>,
      << "t", "r", "e", "a", "t", " ", "a", "s" >>,
      << "a", "p", "p", "r", "o", "x", "i", "m", "a", "t", "e" >>,
      << "n", "e", "g", "l", "e", "c", "t" >> }

\* str.split(sep) for a one-character separator: the pieces between the
\* separators, empty pieces included.
RECURSIVE SplitFrom(_, _, _, _)
SplitFrom(str, sep, i, piece) ==
    IF i > Len(str) THEN << piece >>
    ELSE IF str[i] = sep THEN << piece >> \o SplitFrom(str, sep, i + 1, << >>)
    ELSE SplitFrom(str, sep, i + 1, Append(piece, str[i]))

Split(str, sep) == SplitFrom(str, sep, 1, << >>)

\* str.strip()
RECURSIVE Strip(_)
Strip(str) ==
    IF str = << >> THEN str
    ELSE IF str[1] \in Whitespace THEN Strip(Tail(str))
    ELSE IF str[Len(str)] \in Whitespace THEN Strip(SubSeq(str, 1, Len(str) - 1))
    ELSE str

\* any(keyword in sentence.lower() for keyword in keywords)
HasKeyword(sentence, keywords) ==
    \E keyword \in keywords : Contains(Lower(sentence), keyword)

\* The stripped sentences of source_text.split('.')
Sentences(source_text) ==
    LET pieces == Split(source_text, ".")
    IN  [i \in 1..Len(pieces) |-> Strip(pieces[i])]

\* Extract assumptions (sentences with assumption keywords)
ExtractAssumptions(source_text) ==
    SelectSeq(Sentences(source_text),
              LAMBDA sentence : HasKeyword(sentence, assumption_keywords))

\* Mutant: a sentence already taken as an assumption is not excluded.
ExtractConstraints_NoPrecedence(source_text) ==
    SelectSeq(Sentences(source_text),
              LAMBDA sentence : HasKeyword(sentence, constraint_keywords))

\* Extract constraints (sentences with constraint keywords that are not
\* already in assumptions)
ExtractConstraints(source_text) ==
    LET assumptions == ExtractAssumptions(source_text)
    IN  SelectSeq(Sentences(source_text),
                  LAMBDA sentence :
                      /\ HasKeyword(sentence, constraint_keywords)
                      /\ ~InList(sentence, assumptions))

(***************************************************************************)
(* DocumentVerifierRAG._extract_domain_keywords and                        *)
(* DocumentVerifierRAG._calculate_extraction_confidence                    *)
(***************************************************************************)
physics_keywords ==
    << << "v", "e", "l", "o", "c", "i", "t", "y" >>,
       << "a", "c", "c", "e", "l", "e", "r", "a", "t", "i", "o", "n" >>,
       << "f", "o", "r", "c", "e" >>,
       << "m", "a", "s", "s" >>,
       << "e", "n", "e", "r", "g", "y" >>,
       << "m", "o", "m", "e", "n", "t", "u", "m" >>,
       << "f", "r", "i", "c", "t", "i", "o", "n" >>,
       << "g", "r", "a", "v", "i", "t", "y" >>,
       << "p", "r", "o", "j", "e", "c", "t", "i", "l", "e" >>,
       << "p", "e", "n", "d", "u", "l", "u", "m" >>,
       << "w", "a", "v", "e" >>,
       << "m", "o", "t", "i", "o", "n" >> >>

electrical_keywords ==
    << << "v", "o", "l", "t", "a", "g", "e" >>,
       << "c", "u", "r", "r", "e", "n", "t" >>,
       << "r", "e", "s", "i", "s", "t", "a", "n", "c", "e" >>,
       << "c", "a", "p", "a", "c", "i", "t", "o", "r" >>,
       << "i", "n", "d", "u", "c", "t", "o", "r" >>,
       << "c", "i", "r", "c", "u", "i", "t" >>,
       << "R", "C" >>,
       << "R", "L" >>,
       << "p", "o", "w", "e", "r" >>,
       << "f", "r", "e", "q", "u", "e", "n", "c", "y" >>,
       << "i", "m", "p", "e", "d", "a", "n", "c", "e" >> >>

biology_keywords ==
    << << "p", "o", "p", "u", "l", "a", "t", "i", "o", "n" >>,
       << "g", "r", "o", "w", "t", "h" >>,
       << "s", "p", "e", "c", "i", "e", "s" >>,
       << "c", "a", "r", "r", "y", "i", "n", "g", " ", "c", "a", "p", "a", "c", "i", "t", "y" >>,
       << "e", "p", "i", "d", "e", "m", "i", "c" >>,
       << "i", "n", "f", "e", "c", "t", "i", "o", "n" >>,
       << "s", "u", "s", "c", "e", "p", "t", "i", "b", "l", "e" >>,
       << "r", "e", "c", "o", "v", "e", "r", "y" >>,
       << "S", "I", "R" >>,
       << "l", "o", "g", "i", "s", "t", "i", "c" >> >>

mechanical_keywords ==
    << << "s", "t", "r", "e", "s", "s" >>,
       << "s", "t", "r", "a", "i", "n" >>,
       << "h", "e", "a", "t" >>,
       << "t", "e", "m", "p", "e", "r", "a", "t", "u", "r", "e" >>,
       << "t", "h", "e", "r", "m", "a", "l" >>,
       << "c", "o", "n", "d", "u", "c", "t", "i", "o", "n" >>,
       << "p", "r", "e", "s", "s", "u", "r", "e" >>,
       << "f", "l", "u", "i", "d" >>,
       << "f", "l", "o", "w" >>,
       << "d", "e", "f", "o", "r", "m", "a", "t", "i", "o", "n" >> >>

all_keywords ==
    physics_keywords \o electrical_keywords \o biology_keywords \o mechanical_keywords

\* [kw for kw in all_keywords if kw in text_lower]
ExtractDomainKeywords(text) ==
    LET text_lower == Lower(text)
    IN  SelectSeq(all_keywords, LAMBDA kw : Contains(text_lower, kw))

\* The markers of a clearly structured text.
structure_markers ==
    { << "e", "q", "u", "a", "t", "i", "o", "n" >>,
      << "f", "o", "r", "m", "u", "l", "a" >>,
      << "w", "h", "e", "r", "e" >>,
      << "g", "i", "v", "e", "n" >> }

\* Mutant: the baseline is 0.
CalculateExtractionConfidence_ZeroBaseline(text, equations, parameters) ==
    FloatAdd(FloatAdd(FloatAdd(FloatZero,
                               IF equations # << >> THEN Float(1, 5) ELSE FloatZero),
                      IF parameters # << >> THEN Float(3, 20) ELSE FloatZero),
             IF HasKeyword(text, structure_markers) THEN Float(3, 20) ELSE FloatZero)

\* Mutant: the result is not clamped to 1.0 and the marker boost is 0.2.
CalculateExtractionConfidence_Unclamped(text, equations, parameters) ==
    FloatAdd(FloatAdd(FloatAdd(Float(1, 2),
                               IF equations # << >> THEN Float(1, 5) ELSE FloatZero),
                      IF parameters # << >> THEN Float(3, 20) ELSE FloatZero),
             IF HasKeyword(text, structure_markers) THEN Float(1, 5) ELSE FloatZero)

\* score = 0.5; += 0.2 if equations; += 0.15 if parameters; += 0.15 if the
\* text has a structure marker; return min(score, 1.0)
CalculateExtractionConfidence(text, equations, parameters) ==
    LET baseline    == Float(1, 2)
        with_eqs    == IF equations # << >>
                       THEN FloatAdd(baseline, Float(1, 5)) ELSE baseline
        with_params == IF parameters # << >>
                       THEN FloatAdd(with_eqs, Float(3, 20)) ELSE with_eqs
        score       == IF HasKeyword(text, structure_markers)
                       THEN FloatAdd(with_params, Float(3, 20)) ELSE with_params
    IN  IF FloatLt(FloatOne, score) THEN FloatOne ELSE score

(***************************************************************************)
(* SpecAnalyze: one call of analyze_source_document on a text made of      *)
(* sample sentences joined by full stops.  The sentences hold letters and  *)
(* white space only, so no equation or parameter pattern matches.          *)
(***************************************************************************)
SamplePieces ==
    { << "A", "s", "s", "u", "m", "e", " ", "n", "o", " ", "d", "r", "a", "g" >>,
      << " ", "S", "p", "e", "e", "d", " ", "m", "u", "s", "t", " ", "b", "e", " ", "p", "o", "s", "i", "t", "i", "v", "e" >>,
      << "I", "f", " ", "i", "d", "e", "a", "l" >>,
      << " ", "F", "l", "a", "t", " ", "g", "r", "o", "u", "n", "d", " " >>,
      << >>,
      << " ", "W", "h", "e", "n", " ", "h", "o", "t" >>,
      << "R", "C", " ", "c", "i", "r", "c", "u", "i", "t" >>,
      << "S", "e", "e", " ", "f", "o", "r", "m", "u", "l", "a" >>,
      << " ", "W", "a", "v", "e", " ", "M", "O", "T", "I", "O", "N" >>,
      << "U+2003", "\r", "\n", "I", "g", "n", "o", "r", "e", " ", "w", "i", "n", "d",
         "\r", "\f", "U+3000" >> }

\* '.'.join(pieces)
RECURSIVE JoinFrom(_, _)
JoinFrom(pieces, i) ==
    IF i > Len(pieces) THEN << >>
    ELSE IF i = Len(pieces) THEN pieces[i]
    ELSE pieces[i] \o << "." >> \o JoinFrom(pieces, i + 1)

Join(pieces) == JoinFrom(pieces, 1)

InitAnalyze ==
    /\ pc = "ready"
    /\ \E pieces \in SeqsUpTo(SamplePieces, MaxSentences) :
          call = [fn |-> "analyze_source_document", source_text |-> Join(pieces)]
    /\ ret = NoReturn
    /\ hash_seed \in HashSeeds({ })
    /\ BatchIdle
    /\ SessionIdle
    /\ GeneratorIdle
    /\ numpy_promotion = "nep50"

CallAnalyzeSourceDocument ==
    /\ pc = "ready"
    /\ call.fn = "analyze_source_document"
    /\ ret' = Returned([extracted_equations   |-> << >>,
                        extracted_parameters  |-> << >>,
                        extracted_assumptions |-> ExtractAssumptions(call.source_text),
                        extracted_constraints |-> ExtractConstraints(call.source_text),
                        domain_keywords       |-> ExtractDomainKeywords(call.source_text),
                        confidence_score      |->
                            CalculateExtractionConfidence(call.source_text, << >>, << >>)])
    /\ pc' = "returned"
    /\ UNCHANGED << numpy_promotion, call, hash_seed, f_in, line_num, f_out, stdout,
                 verdicts, gen, diversity, targets >>

NextAnalyze == CallAnalyzeSourceDocument

SpecAnalyze == InitAnalyze /\ [][NextAnalyze]_vars

(***************************************************************************)
(* SpecConfidence: one call of _calculate_extraction_confidence on a       *)
(* sample text, a list of found equations and a list of found parameters.  *)
(***************************************************************************)
ConfidenceTexts ==
    { << >>,
      << "n", "o", " ", "w", "i", "n", "d" >>,
      << "G", "i", "v", "e", "n", " ", "x" >>,
      << "t", "h", "e", " ", "F", "O", "R", "M", "U", "L", "A" >>,
      << "e", "q", "u", "a", "t", "i", "o", "n", "s", " ", "w", "h", "e", "r", "e" >> }

InitConfidence ==
    /\ pc = "ready"
    /\ call \in [fn : { "_calculate_extraction_confidence" },
                 text : ConfidenceTexts,
                 equations : SeqsUpTo(SourceTexts, MaxSourceItems),
                 parameters : DistinctSeqsUpTo({ << "k" >>, << "K" >>, << "m" >> },
                                               MaxSourceItems)]
    /\ ret = NoReturn
    /\ hash_seed \in HashSeeds({ })
    /\ BatchIdle
    /\ SessionIdle
    /\ GeneratorIdle
    /\ numpy_promotion = "nep50"

CallCalculateExtractionConfidence ==
    /\ pc = "ready"
    /\ call.fn = "_calculate_extraction_confidence"
    /\ ret' = Returned(CalculateExtractionConfidence(call.text, call.equations,
                                                     call.parameters))
    /\ pc' = "returned"
    /\ UNCHANGED << numpy_promotion, call, hash_seed, f_in, line_num, f_out, stdout,
                 verdicts, gen, diversity, targets >>

NextConfidence == CallCalculateExtractionConfidence

SpecConfidence == InitConfidence /\ [][NextConfidence]_vars

(***************************************************************************)
(* training_dataset/agent_1_document_interpreter/extend_dataset.py:        *)
(* DiversityManager.  A catalog is the ordered dict of domains, each with  *)
(* its list of subcategories; every sample catalog has at least one        *)
(* subcategory and no subcategory twice in a domain, like DOMAIN_CATALOG.  *)
(***************************************************************************)
MaxTargets == 7

max_topic_history == 100

SampleCatalogs ==
    { << [domain |-> "Physics", subcategories |-> << "Mechanics", "Optics" >>],
         [domain |-> "Biology", subcategories |-> << "Ecology" >>] >>,
      << [domain |-> "Chemistry", subcategories |-> << "Kinetics", "Dynamics" >>] >>,
      << [domain |-> "Physics", subcategories |-> << "Dynamics" >>],
         [domain |-> "Economics", subcategories |-> << "Dynamics" >>] >>,
      << [domain |-> "Astronomy", subcategories |-> << "Orbits" >>] >> }

\* for subcat in info['subcategories']: queue.append((domain, subcat))
SubcategoryPairs(domain, subcategories) ==
    [k \in 1..Len(subcategories) |-> << domain, subcategories[k] >>]

\* for domain, info in self.domain_catalog.items(): ...
RECURSIVE CatalogPairsFrom(_, _)
CatalogPairsFrom(domain_catalog, n) ==
    IF n > Len(domain_catalog) THEN << >>
    ELSE SubcategoryPairs(domain_catalog[n].domain, domain_catalog[n].subcategories)
            \o CatalogPairsFrom(domain_catalog, n + 1)

CatalogPairs(domain_catalog) == CatalogPairsFrom(domain_catalog, 1)

\* Mutant: the queue is filled by drawing pairs with replacement.
BuildDomainQueue_Sampled(domain_catalog) ==
    LET queue == CatalogPairs(domain_catalog)
    IN  [1..Len(queue) -> { queue[k] : k \in 1..Len(queue) }]

\* _build_domain_queue: every pair once, then random.shuffle(queue): the
\* result is any permutation of the pairs.
BuildDomainQueue(domain_catalog) ==
    LET queue == CatalogPairs(domain_catalog)
    IN  { [k \in 1..Len(queue) |-> queue[p[k]]] : p \in Orderings(1..Len(queue)) }

\* DiversityManager.__init__, with the queue that the shuffle produced.
NewManager(domain_catalog, queue) ==
    [state              |-> "ready",
     domain_catalog     |-> domain_catalog,
     domain_queue       |-> queue,
     domain_counts      |-> [k \in { } |-> 0],
     subcategory_counts |-> [k \in { } |-> 0],
     topic_history      |-> << >>]

\* defaultdict(int): counts[key] += 1
Increment(counts, key) ==
    [k \in DOMAIN counts \cup { key } |->
        IF k = key THEN (IF key \in DOMAIN counts THEN counts[key] + 1 ELSE 1)
        ELSE counts[k]]

\* f"{domain}::{subcategory}"
SubcategoryKey(domain, subcategory) == domain \o "::" \o subcategory

\* domain, subcategory = self.domain_queue.pop(0) and the two counters
PopTarget(manager) ==
    LET domain      == manager.domain_queue[1][1]
        subcategory == manager.domain_queue[1][2]
    IN  [manager EXCEPT
            !.domain_queue = Tail(@),
            !.domain_counts = Increment(@, domain),
            !.subcategory_counts = Increment(@, SubcategoryKey(domain, subcategory))]

\* get_next_domain_target: the possible outcomes, one per shuffle when the
\* queue has to be rebuilt.
GetNextDomainTarget(manager) ==
    LET refilled == IF manager.domain_queue = << >>
                    THEN BuildDomainQueue(manager.domain_catalog)
                    ELSE { manager.domain_queue }
    IN  { [manager |-> PopTarget([manager EXCEPT !.domain_queue = q]),
           target  |-> q[1],
           rebuilt |-> manager.domain_queue = << >>] : q \in refilled }

\* self.topic_history[-self.max_topic_history:]
LastItems(list, n) ==
    IF Len(list) > n THEN SubSeq(list, Len(list) - n + 1, Len(list)) ELSE list

\* record_generated
RecordGenerated(manager, topic) ==
    [manager EXCEPT
        !.topic_history = LastItems(Append(@, topic), max_topic_history)]

(***************************************************************************)
(* SpecDiversity: a manager over a sample catalog answers a series of      *)
(* get_next_domain_target calls; targets records what each call returned   *)
(* and whether it rebuilt the queue.                                       *)
(***************************************************************************)
InitDiversity ==
    /\ pc = "ready"
    /\ call = [fn |-> "get_next_domain_target"]
    /\ ret = NoReturn
    /\ hash_seed \in HashSeeds({ })
    /\ BatchIdle
    /\ SessionIdle
    /\ gen = NoLoop
    /\ \E domain_catalog \in SampleCatalogs :
       \E queue \in BuildDomainQueue(domain_catalog) :
          diversity = NewManager(domain_catalog, queue)
    /\ targets = << >>
    /\ numpy_promotion = "nep50"

CallGetNextDomainTarget ==
    /\ pc = "ready"
    /\ call.fn = "get_next_domain_target"
    /\ Len(targets) < MaxTargets
    /\ \E out \in GetNextDomainTarget(diversity) :
          /\ diversity' = out.manager
          /\ ret' = Returned(out.target)
          /\ targets' = Append(targets, [target |-> out.target, rebuilt |-> out.rebuilt])
    /\ UNCHANGED << numpy_promotion, pc, call, hash_seed, f_in, line_num, f_out, stdout,
                    verdicts, gen >>

NextDiversity == CallGetNextDomainTarget

SpecDiversity == InitDiversity /\ [][NextDiversity]_vars

(***************************************************************************)
(* SpecGenerate: SimulationGenerator.generate_dataset.  The language model *)
(* and the critic are outside the program: each sample ends in one of the  *)
(* four ways the loop distinguishes.  f_out is the output file.            *)
(***************************************************************************)
MaxTargetSize == 16

max_consecutive_failures == 15

\* self.diversity_manager = DiversityManager(DOMAIN_CATALOG), cut down to
\* two subcategories.
GeneratorCatalog ==
    << [domain |-> "Physics", subcategories |-> << "Mechanics", "Optics" >>] >>

\* entry['output'].get('simulation_name', '')
SimulationNames == { "Pendulum" }

InitGenerate ==
    /\ pc = "ready"
    /\ call \in [fn : { "generate_dataset" },
                 target_size : { 0, MaxTargetSize },
                 enable_critic : BOOLEAN]
    /\ ret = NoReturn
    /\ hash_seed \in HashSeeds({ })
    /\ BatchIdle
    /\ SessionIdle
    /\ gen = NoLoop
    /\ \E queue \in BuildDomainQueue(GeneratorCatalog) :
          diversity = NewManager(GeneratorCatalog, queue)
    /\ targets = << >>
    /\ numpy_promotion = "nep50"

\* if not self.test_api_connection(): return
ApiConnectionFails ==
    /\ pc = "ready"
    /\ call.fn = "generate_dataset"
    /\ pc' = "returned"
    /\ ret' = Returned(PyNone)
    /\ UNCHANGED << numpy_promotion, call, hash_seed, f_in, line_num, f_out, stdout,
                    verdicts, gen, diversity, targets >>

\* generated = 0 ... consecutive_failures = 0, before the loop
StartLoop ==
    /\ pc = "ready"
    /\ call.fn = "generate_dataset"
    /\ pc' = "loop"
    /\ gen' = [state |-> "loop", i |-> 0, generated |-> 0, failed |-> 0,
               rejected_by_critic |-> 0, consecutive_failures |-> 0,
               accepted |-> 0, quality_scores |-> 0]
    /\ UNCHANGED << numpy_promotion, call, ret, hash_seed, f_in, line_num, f_out, stdout,
                    verdicts, diversity, targets >>

\* The safety check at the end of the loop body: break or go on.
AfterSafetyCheck(consecutive_failures) ==
    IF consecutive_failures >= max_consecutive_failures THEN "summary" ELSE "loop"

\* generate_single_entry returned nothing: counted, then the safety check.
GenerationFails ==
    /\ pc = "loop"
    /\ gen.i < call.target_size
    /\ \E out \in GetNextDomainTarget(diversity) : diversity' = out.manager
    /\ gen' = [gen EXCEPT !.i = @ + 1, !.failed = @ + 1,
                          !.consecutive_failures = @ + 1]
    /\ pc' = AfterSafetyCheck(gen'.consecutive_failures)
    /\ UNCHANGED << numpy_promotion, call, ret, hash_seed, f_in, line_num, f_out, stdout,
                    verdicts, targets >>

\* _validate_ssd_format(entry) is false: counted, then continue.
FormatValidationFails ==
    /\ pc = "loop"
    /\ gen.i < call.target_size
    /\ \E out \in GetNextDomainTarget(diversity) : diversity' = out.manager
    /\ gen' = [gen EXCEPT !.i = @ + 1, !.failed = @ + 1,
                          !.consecutive_failures = @ + 1]
    /\ UNCHANGED << numpy_promotion, pc, call, ret, hash_seed, f_in, line_num, f_out, stdout,
                    verdicts, targets >>

\* The critic's score is below min_quality_score or it recommends REJECT:
\* the score is kept, the sample counted, then continue.
CriticRejects ==
    /\ pc = "loop"
    /\ gen.i < call.target_size
    /\ call.enable_critic
    /\ \E out \in GetNextDomainTarget(diversity) : diversity' = out.manager
    /\ gen' = [gen EXCEPT !.i = @ + 1, !.rejected_by_critic = @ + 1,
                          !.consecutive_failures = @ + 1,
                          !.quality_scores = @ + 1]
    /\ UNCHANGED << numpy_promotion, pc, call, ret, hash_seed, f_in, line_num, f_out, stdout,
                    verdicts, targets >>

\* The entry is accepted (by the critic, or without feedback) and appended
\* to the output file; then the safety check.
AcceptEntry ==
    /\ pc = "loop"
    /\ gen.i < call.target_size
    /\ \E out \in GetNextDomainTarget(diversity), name \in SimulationNames,
          with_feedback \in { b \in BOOLEAN : b => call.enable_critic } :
          /\ f_out' = Append(f_out, [simulation_name |-> name])
          /\ diversity' = RecordGenerated(out.manager, name)
          /\ gen' = [gen EXCEPT !.i = @ + 1, !.generated = @ + 1,
                                !.consecutive_failures = 0,
                                !.accepted = @ + 1,
                                !.quality_scores =
                                    IF with_feedback THEN @ + 1 ELSE @]
    /\ pc' = AfterSafetyCheck(gen'.consecutive_failures)
    /\ UNCHANGED << numpy_promotion, call, ret, hash_seed, f_in, line_num, stdout,
                    verdicts, targets >>

\* range(target_size) is exhausted.
LoopExhausted ==
    /\ pc = "loop"
    /\ gen.i = call.target_size
    /\ pc' = "summary"
    /\ UNCHANGED << numpy_promotion, call, ret, hash_seed, f_in, line_num, f_out, stdout,
                    verdicts, gen, diversity, targets >>

\* The final summary is logged and generate_dataset returns.
FinalSummary ==
    /\ pc = "summary"
    /\ pc' = "returned"
    /\ ret' = Returned(PyNone)
    /\ UNCHANGED << numpy_promotion, call, hash_seed, f_in, line_num, f_out, stdout,
                    verdicts, gen, diversity, targets >>

NextGenerate ==
    \/ ApiConnectionFails
    \/ StartLoop
    \/ GenerationFails
    \/ FormatValidationFails
    \/ CriticRejects
    \/ AcceptEntry
    \/ LoopExhausted
    \/ FinalSummary

SpecGenerate == InitGenerate /\ [][NextGenerate]_vars

(***************************************************************************)
(* Properties of _verify_equations (checked under SpecEq).                 *)
(***************************************************************************)
EqReturned == pc = "returned" /\ call.fn = "_verify_equations"

\* cosine(u, v) > tenths/10 and cosine(u, v) < tenths/10, in exact arithmetic.
CosAbove(u, v, tenths) ==
    Dot(u, v) > 0 /\ 100 * Dot(u, v) * Dot(u, v) > tenths * tenths * Dot(u, u) * Dot(v, v)

CosBelow(u, v, tenths) ==
    Dot(u, v) <= 0 \/ 100 * Dot(u, v) * Dot(u, v) < tenths * tenths * Dot(u, u) * Dot(v, v)

\* Source equations covered by some candidate, candidates covered by some source.
CoveredSources(src, ssd) ==
    { i \in 1..Len(src) :
        \E j \in 1..Len(ssd) : CosAbove(Embedding[src[i]], Embedding[ssd[j]], 7) }

CoveredCandidates(src, ssd) ==
    { j \in 1..Len(ssd) :
        \E i \in 1..Len(src) : CosAbove(Embedding[ssd[j]], Embedding[src[i]], 7) }

\* C3 as stated: with source equations and no candidate equations the score
\* is 0.5 and nothing is recorded as missing or extra.
C3_Original ==
    (EqReturned /\ call.source_equations # << >> /\ call.ssd_equations = << >>)
        => /\ ret.value.score = Float(1, 2)
           /\ ret.value.missing = << >>
           /\ ret.value.extra = << >>

\* C3 as amended: with source equations and no candidate equations the score
\* is 0.0, every source equation is recorded as missing in source order, and
\* nothing is recorded as extra.
C3_EmptyCandidateScoresZero ==
    (EqReturned /\ call.source_equations # << >> /\ call.ssd_equations = << >>)
        => /\ ret.value.score = Float(0, 1)
           /\ ret.value.missing =
                [i \in 1..Len(call.source_equations) |->
                    << "Equation", call.source_equations[i] >>]
           /\ ret.value.extra = << >>

C3_Witness ==
    /\ EqReturned
    /\ Len(call.source_equations) = 2
    /\ call.ssd_equations = << >>
    /\ Len(ret.value.missing) = 2

\* C8: with both lists non-empty, equation_accuracy = (precision + recall)/2,
\* recall = (source equations whose best candidate similarity exceeds 0.7) /
\* (source equations), precision = (candidates whose best source similarity
\* exceeds 0.7) / (candidates); matching is per side, not one-to-one.
C8_PrecisionRecallAverage ==
    (EqReturned /\ call.source_equations # << >> /\ call.ssd_equations # << >>)
        => LET src == call.source_equations
               ssd == call.ssd_equations
               recall    == Float(Cardinality(CoveredSources(src, ssd)), Len(src))
               precision == Float(Cardinality(CoveredCandidates(src, ssd)), Len(ssd))
           IN  ret.value.score = FloatHalf(FloatAdd(precision, recall))

\* One source equation covers two different candidates: the score is 1.0.
C8_Witness ==
    /\ EqReturned
    /\ Len(call.source_equations) = 1
    /\ Len(call.ssd_equations) = 2
    /\ call.ssd_equations[1] # call.ssd_equations[2]
    /\ ret.value.score = Float(1, 1)

\* A text whose similarity to every source equation is below 0.7.
Unrelated(txt, src) ==
    \A i \in 1..Len(src) : CosBelow(Embedding[txt], Embedding[src[i]], 7)

\* C9: appending to the candidate an equation whose similarity to every
\* source equation is below 0.7 never increases equation_accuracy and makes
\* the extra list exactly one entry longer.
C9_MonotonicPenalty ==
    EqReturned
        => \A txt \in EquationTexts :
              Unrelated(txt, call.source_equations)
                 => LET after == VerifyEquations(call.source_equations,
                                                 Append(call.ssd_equations, txt))
                    IN  /\ FloatLe(after.score, ret.value.score)
                        /\ Len(after.extra) = Len(ret.value.extra) + 1

\* An unrelated equation is appended to a candidate that matched, and the
\* score strictly drops.
C9_Witness ==
    /\ EqReturned
    /\ call.source_equations # << >>
    /\ call.ssd_equations # << >>
    /\ \E txt \in EquationTexts :
          /\ Unrelated(txt, call.source_equations)
          /\ FloatLt(VerifyEquations(call.source_equations,
                                     Append(call.ssd_equations, txt)).score,
                     ret.value.score)

\* C10: with no source equations and no candidate equations,
\* equation_accuracy is exactly 1.0 and nothing is missing or extra.
C10_BothEmptyScoresOne ==
    (EqReturned /\ call.source_equations = << >> /\ call.ssd_equations = << >>)
        => /\ ret.value.score = Float(1, 1)
           /\ ret.value.missing = << >>
           /\ ret.value.extra = << >>

C10_Witness ==
    /\ EqReturned
    /\ call.source_equations = << >>
    /\ call.ssd_equations = << >>
    /\ ret.status = "returned"

\* Source equations that also occur, as the same string, in the candidate
\* list, and candidate equations that also occur in the source list.
IdenticalSources(src, ssd) ==
    { i \in 1..Len(src) : \E j \in 1..Len(ssd) : src[i] = ssd[j] }

IdenticalCandidates(src, ssd) ==
    { j \in 1..Len(ssd) : \E i \in 1..Len(src) : ssd[j] = src[i] }

\* C11: a candidate equation identical to a source equation is matched on
\* both sides: the source equation is not listed as missing, the candidate
\* equation is not listed as extra, and the numerators of precision and
\* recall both count it.
C11_IdenticalAlwaysMatched ==
    EqReturned
        => LET src == call.source_equations
               ssd == call.ssd_equations
               missing == ret.value.missing
               extra   == ret.value.extra
           IN  IdenticalSources(src, ssd) # { }
                 => /\ \A i \in IdenticalSources(src, ssd) :
                          \A k \in 1..Len(missing) : missing[k] # << "Equation", src[i] >>
                    /\ \A j \in IdenticalCandidates(src, ssd) :
                          \A k \in 1..Len(extra) : extra[k] # << "Equation", ssd[j] >>
                    /\ \E matched_source \in Cardinality(IdenticalSources(src, ssd))..Len(src) :
                       \E matched_ssd \in Cardinality(IdenticalCandidates(src, ssd))..Len(ssd) :
                          /\ Len(missing) = Len(src) - matched_source
                          /\ Len(extra) = Len(ssd) - matched_ssd
                          /\ ret.value.score =
                               FloatHalf(FloatAdd(Float(matched_ssd, Len(ssd)),
                                                  Float(matched_source, Len(src))))

\* Two source equations and two candidates; only the second candidate is
\* identical to a source equation, the other two strings stay unmatched.
C11_Witness ==
    /\ EqReturned
    /\ Len(call.source_equations) = 2
    /\ Len(call.ssd_equations) = 2
    /\ call.ssd_equations[2] \in { call.source_equations[1], call.source_equations[2] }
    /\ Len(ret.value.missing) = 1
    /\ Len(ret.value.extra) = 1
    /\ ret.value.score = Float(1, 2)

\* How often an entry occurs in a list.
Occurrences(entry, list) == Cardinality({ k \in DOMAIN list : list[k] = entry })

\* C26: with source equations, every source equation is either counted as
\* matched or listed exactly once as missing, and every candidate equation
\* is either counted as matched or listed exactly once as extra:
\* matched_source + missing entries = source equations and
\* matched_ssd + extra entries = candidate equations.
C26_MatchedOrListed ==
    (EqReturned /\ call.source_equations # << >>)
        => LET src == call.source_equations
               ssd == call.ssd_equations
               matched_source == MatchedCount(SourceMatches(src, ssd))
               matched_ssd    == MatchedCount(SsdMatches(src, ssd))
           IN  /\ matched_source + Len(ret.value.missing) = Len(src)
               /\ matched_ssd + Len(ret.value.extra) = Len(ssd)
               /\ matched_source = Cardinality(CoveredSources(src, ssd))
               /\ matched_ssd = Cardinality(CoveredCandidates(src, ssd))
               /\ \A i \in 1..Len(src) :
                     Occurrences(<< "Equation", src[i] >>, ret.value.missing)
                        = IF i \in CoveredSources(src, ssd) THEN 0 ELSE 1
               /\ \A j \in 1..Len(ssd) :
                     Occurrences(<< "Equation", ssd[j] >>, ret.value.extra)
                        = IF j \in CoveredCandidates(src, ssd) THEN 0
                          ELSE Occurrences(ssd[j], ssd)

\* One source equation is matched and one is missing; one candidate is
\* matched and one is extra.
C26_Witness ==
    /\ EqReturned
    /\ Len(call.source_equations) = 2
    /\ Len(call.ssd_equations) = 2
    /\ MatchedCount(SourceMatches(call.source_equations, call.ssd_equations)) = 1
    /\ MatchedCount(SsdMatches(call.source_equations, call.ssd_equations)) = 1
    /\ ret.value.missing # << >>
    /\ ret.value.extra # << >>

\* C27: with no source equations and at least one candidate equation the
\* score is 0.5, nothing is missing, the extra list holds one "Equation"
\* entry per candidate equation in candidate order, and the embedding model
\* is not called.
C27_NoSourceAllExtra ==
    (EqReturned /\ call.source_equations = << >> /\ call.ssd_equations # << >>)
        => /\ ret.value.score = Float(1, 2)
           /\ ret.value.missing = << >>
           /\ Len(ret.value.extra) = Len(call.ssd_equations)
           /\ \A j \in 1..Len(call.ssd_equations) :
                 ret.value.extra[j] = << "Equation", call.ssd_equations[j] >>
           /\ ret.encoded = << >>

\* Two different candidate equations, no source equation.
C27_Witness ==
    /\ EqReturned
    /\ call.source_equations = << >>
    /\ Len(call.ssd_equations) = 2
    /\ call.ssd_equations[1] # call.ssd_equations[2]
    /\ Len(ret.value.extra) = 2

(***************************************************************************)
(* Properties of _verify_parameters (checked under SpecParam).             *)
(***************************************************************************)
ParamReturned == pc = "returned" /\ call.fn = "_verify_parameters"

\* A candidate parameter whose lower-case form is nowhere in the lower-cased
\* source text.
SomeCandidateOutsideText ==
    \E j \in 1..Len(call.ssd_parameters) :
        ~Contains(Lower(call.source_text), Lower(call.ssd_parameters[j]))

\* C7 as stated: with no source parameters, parameter_completeness is 1.0 for
\* an empty candidate list and exactly 0.8 for any non-empty one.
C7_Original ==
    (ParamReturned /\ call.source_parameters = << >>)
        => ret.value.score =
             (IF call.ssd_parameters = << >> THEN Float(1, 1) ELSE Float(4, 5))

\* C7 as amended: with no source parameters, parameter_completeness is 1.0
\* for an empty candidate list, 0.8 for a non-empty one none of whose
\* parameters is flagged extra (each occurs in the lower-cased source text),
\* and 0.8 * 0.8 as soon as one candidate parameter is flagged extra.
C7_NoSourceParameters ==
    (ParamReturned /\ call.source_parameters = << >>)
        => ret.value.score =
             (IF call.ssd_parameters = << >> THEN Float(1, 1)
              ELSE IF SomeCandidateOutsideText
                   THEN FloatMul(Float(4, 5), Float(4, 5))
                   ELSE Float(4, 5))

\* No source parameters and two candidate parameters, both outside the
\* source text: both are extra and the score is 0.8 * 0.8.
C7_Witness ==
    /\ ParamReturned
    /\ call.source_parameters = << >>
    /\ Len(call.ssd_parameters) = 2
    /\ Len(ret.value.extra) = 2
    /\ ret.value.score = FloatMul(Float(4, 5), Float(4, 5))

\* Source parameters whose lower-case form is exactly an element of the
\* lower-cased candidate parameters.
ExactlyPresent(src, ssd) ==
    { i \in 1..Len(src) : \E j \in 1..Len(ssd) : Lower(src[i]) = Lower(ssd[j]) }

\* C12: with at least one source parameter, parameter_completeness is the
\* share of source parameters exactly present (lower-cased) in the candidate,
\* times 0.8 once if any candidate parameter is flagged extra, however many
\* extras there are: one more extra leaves a penalised score unchanged.
C12_CoverageTimesOnePenalty ==
    (ParamReturned /\ call.source_parameters # << >>)
        => LET src == call.source_parameters
               ssd == call.ssd_parameters
               coverage == Float(Cardinality(ExactlyPresent(src, ssd)), Len(src))
           IN  /\ ret.value.score =
                    (IF ret.value.extra # << >>
                     THEN FloatMul(coverage, Float(4, 5))
                     ELSE coverage)
               /\ \A sym \in SsdSymbols :
                     LET after == VerifyParameters(src, Append(ssd, sym),
                                                   call.source_text)
                     IN  (ret.value.extra # << >>
                            /\ Len(after.extra) = Len(ret.value.extra) + 1)
                             => after.score = ret.value.score

\* One source parameter is present, one candidate parameter is extra, and a
\* second extra can be added: the score is 0.8 before and after.
C12_Witness ==
    /\ ParamReturned
    /\ Len(call.source_parameters) = 1
    /\ Len(call.ssd_parameters) = 2
    /\ Len(ret.value.extra) = 1
    /\ ret.value.score = FloatMul(Float(1, 1), Float(4, 5))
    /\ \E sym \in SsdSymbols :
          LET after == VerifyParameters(call.source_parameters,
                                        Append(call.ssd_parameters, sym),
                                        call.source_text)
          IN  Len(after.extra) = 2 /\ after.score = Float(4, 5)

\* C13: a source parameter is listed as missing iff its lower-case form is
\* neither equal to nor a substring of the lower-case form of any candidate
\* parameter.
C13_MissingIffNoSubstring ==
    ParamReturned
        => LET src == call.source_parameters
               ssd == call.ssd_parameters
               missing == ret.value.missing
           IN  /\ \A i \in 1..Len(src) :
                     (\E k \in 1..Len(missing) : missing[k] = << "Parameter", src[i] >>)
                        <=> ~\E j \in 1..Len(ssd) :
                                \/ Lower(src[i]) = Lower(ssd[j])
                                \/ Contains(Lower(ssd[j]), Lower(src[i]))
               /\ \A k \in 1..Len(missing) :
                     \E i \in 1..Len(src) : missing[k] = << "Parameter", src[i] >>

\* Two source parameters, neither exactly present, both inside a longer
\* candidate parameter: the score is 0 and nothing is missing.
C13_Witness ==
    /\ ParamReturned
    /\ Len(call.source_parameters) = 2
    /\ ExactlyPresent(call.source_parameters, call.ssd_parameters) = { }
    /\ call.ssd_parameters # << >>
    /\ ret.value.missing = << >>
    /\ ret.value.score = Float(0, 1)

\* C14: a candidate parameter is listed as extra iff its lower-case form is
\* not an element of the lower-cased source parameters and occurs nowhere in
\* the lower-cased source text.
C14_ExtraIffAbsentFromSource ==
    ParamReturned
        => LET src == call.source_parameters
               ssd == call.ssd_parameters
               extra == ret.value.extra
           IN  /\ \A j \in 1..Len(ssd) :
                     (\E k \in 1..Len(extra) : extra[k] = << "Parameter", ssd[j] >>)
                        <=> /\ \A i \in 1..Len(src) : Lower(ssd[j]) # Lower(src[i])
                            /\ ~Contains(Lower(call.source_text), Lower(ssd[j]))
               /\ \A k \in 1..Len(extra) :
                     \E j \in 1..Len(ssd) : extra[k] = << "Parameter", ssd[j] >>

\* Two candidate parameters, neither a source parameter: the one that
\* occurs in the source text is kept, the other is extra.
C14_Witness ==
    /\ ParamReturned
    /\ Len(call.ssd_parameters) = 2
    /\ \A j \in 1..2 : \A i \in 1..Len(call.source_parameters) :
          Lower(call.ssd_parameters[j]) # Lower(call.source_parameters[i])
    /\ call.ssd_parameters[1] # << >>
    /\ Contains(Lower(call.source_text), Lower(call.ssd_parameters[1]))
    /\ ret.value.extra = << << "Parameter", call.ssd_parameters[2] >> >>

\* Source parameters reported in the missing list.
ListedMissing(src, missing) ==
    { i \in 1..Len(src) :
        \E k \in 1..Len(missing) : missing[k] = << "Parameter", src[i] >> }

\* Source parameters that are not exactly present but occur inside a longer
\* candidate parameter.
InsideCandidate(src, ssd) ==
    { i \in 1..Len(src) :
        /\ i \notin ExactlyPresent(src, ssd)
        /\ \E j \in 1..Len(ssd) : Contains(Lower(ssd[j]), Lower(src[i])) }

\* C28 as stated: a source parameter is counted as matched in
\* parameter_completeness iff it is not listed as missing, so with no extras
\* parameter_completeness is 1.0 exactly when no parameter is reported
\* missing.
C28_Original ==
    ParamReturned
        => LET src == call.source_parameters
               ssd == call.ssd_parameters
           IN  /\ \A i \in 1..Len(src) :
                     i \in ExactlyPresent(src, ssd)
                        <=> i \notin ListedMissing(src, ret.value.missing)
               /\ ret.value.extra = << >>
                     => (ret.value.score = Float(1, 1) <=> ret.value.missing = << >>)

\* C28 as amended: a source parameter counted as matched is never listed as
\* missing, and a source parameter that is neither counted nor listed is
\* exactly one that occurs inside a longer candidate parameter; with source
\* parameters and no extras, parameter_completeness is 1.0 exactly when
\* every source parameter is exactly present, which implies that none is
\* reported missing but is not implied by it.
C28_CountedImpliesNotMissing ==
    ParamReturned
        => LET src == call.source_parameters
               ssd == call.ssd_parameters
               listed == ListedMissing(src, ret.value.missing)
           IN  /\ ExactlyPresent(src, ssd) \cap listed = { }
               /\ (1..Len(src)) \ (ExactlyPresent(src, ssd) \cup listed)
                     = InsideCandidate(src, ssd)
               /\ (src # << >> /\ ret.value.extra = << >>)
                     => /\ ret.value.score = Float(1, 1)
                              <=> ExactlyPresent(src, ssd) = 1..Len(src)
                        /\ ret.value.score = Float(1, 1)
                              => ret.value.missing = << >>
                        /\ ret.value.score
                              = Float(Len(src) - Cardinality(listed)
                                        - Cardinality(InsideCandidate(src, ssd)),
                                      Len(src))

\* The only source parameter occurs inside a longer candidate parameter that
\* the source text mentions: nothing is missing, nothing is extra, and the
\* score is 0.
C28_Witness ==
    /\ ParamReturned
    /\ Len(call.source_parameters) = 1
    /\ InsideCandidate(call.source_parameters, call.ssd_parameters) = { 1 }
    /\ ret.value.missing = << >>
    /\ ret.value.extra = << >>
    /\ ret.value.score = Float(0, 1)

(***************************************************************************)
(* Properties of _verify_assumptions and _verify_constraints (checked      *)
(* under SpecMatch).                                                       *)
(***************************************************************************)
AssumptionsReturned == pc = "returned" /\ call.fn = "_verify_assumptions"

ConstraintsReturned == pc = "returned" /\ call.fn = "_verify_constraints"

\* C15: a non-empty source assumption list with an empty candidate list
\* scores exactly 0.0 and has one "Assumption: ..." missing entry per source
\* assumption, in source order.
C15_AssumptionEmptyCandidateFloor ==
    (AssumptionsReturned /\ call.source_items # << >> /\ call.ssd_items = << >>)
        => /\ ret.value.score = Float(0, 1)
           /\ ret.value.missing =
                [i \in 1..Len(call.source_items) |->
                    << "Assumption", call.source_items[i] >>]

\* Two different source assumptions and no candidate assumption.
C15_Witness ==
    /\ AssumptionsReturned
    /\ Len(call.source_items) = 2
    /\ call.source_items[1] # call.source_items[2]
    /\ call.ssd_items = << >>
    /\ Len(ret.value.missing) = 2

\* C16: a non-empty source constraint list with an empty candidate list
\* scores exactly 0.5; an empty source constraint list scores 1.0 whatever
\* the candidate holds.
C16_ConstraintFloors ==
    ConstraintsReturned
        => /\ (call.source_items # << >> /\ call.ssd_items = << >>)
                 => ret.value.score = Float(1, 2)
           /\ call.source_items = << >> => ret.value.score = Float(1, 1)

\* Source constraints and no candidate constraint: the score is 0.5, not 0.
C16_Witness ==
    /\ ConstraintsReturned
    /\ Len(call.source_items) = 2
    /\ call.ssd_items = << >>
    /\ ret.value.score = Float(1, 2)
    /\ ret.value.score # Float(0, 1)

\* The similarity of u and v, as the program has it, exceeds tenths/10.  The
\* program's similarity is a float32.  A cosine above the threshold exceeds
\* it and one below does not.  A cosine of exactly the threshold is held as
\* float32(tenths/10): read against a float32 threshold (NumPy 2 and later)
\* the two are equal and it does not exceed; read against the float64
\* threshold (NumPy 1.x) it exceeds when the float32 lies above tenths/10,
\* as 0.60000002384 does.
SimilarityExceeds(u, v, tenths) ==
    \/ CosAbove(u, v, tenths)
    \/ /\ ~CosBelow(u, v, tenths)
       /\ numpy_promotion = "legacy"
       /\ Float32Above(tenths)

\* The source items, in order, whose best similarity to a candidate item
\* does not exceed 0.6.
Uncovered(src, ssd) ==
    LET RECURSIVE From(_)
        From(i) ==
            IF i > Len(src) THEN << >>
            ELSE (IF \E j \in 1..Len(ssd) :
                        SimilarityExceeds(Embedding[src[i]], Embedding[ssd[j]], 6)
                  THEN << >> ELSE << src[i] >>) \o From(i + 1)
    IN  From(1)

\* C17: for assumptions and constraints alike, with both lists non-empty the
\* score is (source items whose best similarity to a candidate item exceeds
\* 0.6) / (source items), each uncovered source item yields exactly one
\* missing entry, and nothing is reported as extra.
C17_CoveredShare ==
    ((AssumptionsReturned \/ ConstraintsReturned)
        /\ call.source_items # << >> /\ call.ssd_items # << >>)
        => LET src == call.source_items
               ssd == call.ssd_items
               tag == IF call.fn = "_verify_assumptions" THEN "Assumption"
                      ELSE "Constraint"
               uncovered == Uncovered(src, ssd)
           IN  /\ ret.value.score = Float(Len(src) - Len(uncovered), Len(src))
               /\ ret.value.missing =
                    [k \in 1..Len(uncovered) |-> << tag, uncovered[k] >>]
               /\ DOMAIN ret.value = { "score", "missing" }

\* Two source items and two candidate items: the first source item is
\* covered; the best candidate of the second is at a cosine of exactly 0.6,
\* which float32 against float32 does not exceed, and the item is missing.
C17_Witness ==
    /\ AssumptionsReturned \/ ConstraintsReturned
    /\ numpy_promotion = "nep50"
    /\ Len(call.source_items) = 2
    /\ Len(call.ssd_items) = 2
    /\ ret.value.score = Float(1, 2)
    /\ Len(ret.value.missing) = 1
    /\ ret.value.missing[1][2] = call.source_items[2]
    /\ \A j \in 1..2 :
          ~CosAbove(Embedding[call.source_items[2]], Embedding[call.ssd_items[j]], 6)
    /\ \E j \in 1..2 :
          ~CosBelow(Embedding[call.source_items[2]], Embedding[call.ssd_items[j]], 6)

(***************************************************************************)
(* Properties of verify_ssd_fidelity (checked under Spec).                 *)
(***************************************************************************)
FidelityReturned ==
    pc = "returned" /\ call.fn = "verify_ssd_fidelity" /\ ret.status = "returned"

CategoryScores ==
    << ret.value.equation_accuracy, ret.value.parameter_completeness,
       ret.value.assumption_completeness, ret.value.constraint_accuracy >>

\* C1: overall_fidelity is the weighted sum 0.4/0.3/0.2/0.1 of the category
\* scores; category scores (1,1,1,1) give 1.0, (0,0,0,0) give 0.0 and
\* (1,0,0,0) give 0.4.
C1_AggregateWeightCheck ==
    FidelityReturned
        => /\ CategoryScores = << Float(1, 1), Float(1, 1), Float(1, 1), Float(1, 1) >>
                => ret.value.overall_fidelity = Float(1, 1)
           /\ CategoryScores = << Float(0, 1), Float(0, 1), Float(0, 1), Float(0, 1) >>
                => ret.value.overall_fidelity = Float(0, 1)
           /\ CategoryScores = << Float(1, 1), Float(0, 1), Float(0, 1), Float(0, 1) >>
                => ret.value.overall_fidelity = Float(2, 5)

InUnitInterval(score) == BigCmp(<< >>, score) <= 0 /\ BigCmp(score, Float(1, 1)) <= 0

\* C2: every category score and overall_fidelity returned by
\* verify_ssd_fidelity lies in [0, 1].
C2_ScoresInUnitInterval ==
    FidelityReturned
        => /\ \A i \in 1..4 : InUnitInterval(CategoryScores[i])
           /\ InUnitInterval(ret.value.overall_fidelity)

\* A verdict that mixes a category at 0, a category at 1 and a category
\* strictly between, with an overall score strictly inside the interval.
C2_Witness ==
    /\ FidelityReturned
    /\ ret.value.equation_accuracy = Float(0, 1)
    /\ ret.value.assumption_completeness = Float(1, 1)
    /\ BigCmp(<< >>, ret.value.parameter_completeness) < 0
    /\ BigCmp(ret.value.parameter_completeness, Float(1, 1)) < 0
    /\ BigCmp(<< >>, ret.value.overall_fidelity) < 0
    /\ BigCmp(ret.value.overall_fidelity, Float(1, 1)) < 0

\* A field as the claim reads it: anything but a list of well-formed
\* entries is the empty collection.
FieldAsClaimed(key, value) ==
    IF value.py # "list" THEN PyList(<< >>)
    ELSE IF key \in { "assumptions", "constraints" } THEN value
    ELSE IF \A i \in 1..Len(value.items) :
               value.items[i].py = "dict" /\ value.items[i].has
    THEN value
    ELSE PyList(<< >>)

DocAsClaimed(doc) ==
    [k \in { "equations", "parameters", "assumptions", "constraints" } |->
        IF k \in DOMAIN doc THEN FieldAsClaimed(k, doc[k]) ELSE PyList(<< >>)]

\* C6: verify_ssd_fidelity never raises because of the candidate's shape; a
\* missing or malformed field counts as an empty collection and unknown keys
\* are ignored.
C6_MalformedCountsAsEmpty ==
    (pc # "ready" /\ call.fn = "verify_ssd_fidelity")
        => /\ ret.status = "returned"
           /\ ret = VerifySsdFidelity(call.source_text, DocAsClaimed(call.ssd_document),
                                      hash_seed)

\* The tags of a list of entries, in order.
Tags(entries) == [k \in 1..Len(entries) |-> entries[k][1]]

\* C18: missing_elements is the equation, parameter, assumption and
\* constraint missing lists concatenated in that order, extra_elements is
\* the equation extras followed by the parameter extras, and no extra entry
\* is an assumption or a constraint.
C18_ConcatenationOrder ==
    FidelityReturned
        => LET analysis == AnalyzeSourceDocument(call.source_text, hash_seed)
               doc == call.ssd_document
               eqs == VerifyEquations(analysis.extracted_equations,
                                      GetEntries(doc, "equations", "").value)
               par == VerifyParameters(analysis.extracted_parameters,
                                       GetEntries(doc, "parameters", << >>).value,
                                       call.source_text)
               asm == VerifyAssumptions(analysis.extracted_assumptions,
                                        GetList(doc, "assumptions"))
               con == VerifyConstraints(analysis.extracted_constraints,
                                        GetList(doc, "constraints"))
           IN  /\ ret.value.missing_elements =
                    eqs.missing \o par.missing \o asm.missing \o con.missing
               /\ ret.value.extra_elements = eqs.extra \o par.extra
               /\ \A k \in 1..Len(ret.value.extra_elements) :
                     ret.value.extra_elements[k][1] \in { "Equation", "Parameter" }

\* Missing entries of three categories and extras of both kinds, with
\* candidate assumptions and constraints that match nothing in the source.
C18_Witness ==
    /\ FidelityReturned
    /\ Tags(ret.value.missing_elements) = << "Equation", "Assumption", "Constraint" >>
    /\ Tags(ret.value.extra_elements) = << "Equation", "Parameter" >>
    /\ "assumptions" \in DOMAIN call.ssd_document
    /\ call.ssd_document["assumptions"].py = "list"

(***************************************************************************)
(* Properties of batch_verify (checked under SpecBatch).                   *)
(***************************************************************************)
NonBlankLines == { n \in 1..Len(f_in) : f_in[n].kind # "blank" }

\* The line numbers the loop reported with the given message, in order.
PrintedLines(what) ==
    LET hits == SelectSeq(stdout, LAMBDA e : e[1] = what)
    IN  [k \in 1..Len(hits) |-> hits[k][2]]

\* C4: a batch of N units always yields exactly N outcome records in the
\* output, a failed unit being reported there rather than dropped.
C4_OneRecordPerUnit ==
    (pc = "done" /\ call.fn = "batch_verify")
        => Len(f_out) = Cardinality(NonBlankLines)

\* The records of the output are those of the lines reported with a status,
\* in input order.
RecordsInInputOrder ==
    LET ok == PrintedLines("Status")
    IN  /\ Len(f_out) = Len(ok)
        /\ \A k \in 1..Len(ok) :
              /\ k > 1 => ok[k - 1] < ok[k]
              /\ f_out[k].source_document = f_in[ok[k]].source_document
              /\ f_out[k].ssd_document = f_in[ok[k]].ssd_document

\* At the end every non-blank line has been processed exactly once, whatever
\* failed before it.
EveryLineProcessed ==
    pc = "done"
        => /\ line_num = Len(f_in)
           /\ \A n \in NonBlankLines :
                 Cardinality({ k \in 1..Len(stdout) :
                                 stdout[k] \in { << "Status", n >>, << "Error", n >> } }) = 1

\* A record once written stays, and a step writes at most one record.
RecordsKept ==
    /\ Len(f_out') \in { Len(f_out), Len(f_out) + 1 }
    /\ SubSeq(f_out', 1, Len(f_out)) = f_out

\* C5: a failure while processing one unit never aborts the batch: every
\* later non-blank line is still processed, the records already written
\* remain, and the records appear in input order.
C5_FailureNeverAborts ==
    /\ [](call.fn = "batch_verify" => RecordsInInputOrder /\ EveryLineProcessed)
    /\ [][call.fn = "batch_verify" => RecordsKept]_vars

\* A record, then a failing line, then a second record after the failure.
C5_Witness ==
    /\ pc = "done"
    /\ call.fn = "batch_verify"
    /\ PrintedLines("Status") = << 1, 3 >>
    /\ PrintedLines("Error") = << 2 >>
    /\ Len(f_out) = 2

(***************************************************************************)
(* Properties of verify_document (checked under SpecDoc).                  *)
(***************************************************************************)
DocumentReturned ==
    pc = "returned" /\ call.fn = "verify_document" /\ ret.status = "returned"

\* C19: the status is a function of the scorer's overall_fidelity alone:
\* "high_fidelity" iff it is >= 0.9, "acceptable" iff it is >= 0.7 and
\* < 0.9, "needs_review" otherwise, whatever the language model answered.
C19_StatusFromOverallFidelity ==
    DocumentReturned
        => LET overall == ret.value.fidelity_verification.overall_fidelity
               status  == ret.value.overall_status
           IN  /\ status \in { "high_fidelity", "acceptable", "needs_review" }
               /\ status = "high_fidelity" <=> BigCmp(overall, Float(9, 10)) >= 0
               /\ status = "acceptable"
                     <=> (BigCmp(overall, Float(7, 10)) >= 0
                            /\ BigCmp(overall, Float(9, 10)) < 0)
               /\ overall =
                     VerifySsdFidelity(call.source_document, call.ssd_document,
                                       hash_seed).value.overall_fidelity

\* An acceptable document whose language-model answer parsed as JSON.
C19_Witness ==
    /\ DocumentReturned
    /\ ret.value.overall_status = "acceptable"
    /\ ret.value.llm_verification = "llm_json"

(***************************************************************************)
(* Properties of analyze_source_document (checked under SpecAnalyze).      *)
(***************************************************************************)
AnalyzeReturned == pc = "returned" /\ call.fn = "analyze_source_document"

\* The items of a list that satisfy the flags, in the order of the list.
RECURSIVE KeepFrom(_, _, _)
KeepFrom(list, keep, i) ==
    IF i > Len(list) THEN << >>
    ELSE (IF keep[i] THEN << list[i] >> ELSE << >>) \o KeepFrom(list, keep, i + 1)

\* C20: no sentence is in both extracted_assumptions and
\* extracted_constraints; a sentence with an assumption keyword is an
\* assumption and never a constraint, even with a constraint keyword; both
\* lists keep the order of appearance in the source.
C20_AssumptionFirst ==
    AnalyzeReturned
        => LET sentences == Sentences(call.source_text)
               asm == [i \in 1..Len(sentences) |->
                         HasKeyword(sentences[i], assumption_keywords)]
               con == [i \in 1..Len(sentences) |->
                         HasKeyword(sentences[i], constraint_keywords) /\ ~asm[i]]
               assumptions == ret.value.extracted_assumptions
               constraints == ret.value.extracted_constraints
           IN  /\ \A i \in 1..Len(assumptions) : \A j \in 1..Len(constraints) :
                     assumptions[i] # constraints[j]
               /\ assumptions = KeepFrom(sentences, asm, 1)
               /\ constraints = KeepFrom(sentences, con, 1)

\* A sentence with both kinds of keyword is listed as an assumption only,
\* between two sentences that are listed as constraints.
C20_Witness ==
    /\ AnalyzeReturned
    /\ Len(ret.value.extracted_constraints) = 2
    /\ ret.value.extracted_constraints[1] # ret.value.extracted_constraints[2]
    /\ Len(ret.value.extracted_assumptions) = 1
    /\ HasKeyword(ret.value.extracted_assumptions[1], constraint_keywords)
    /\ Sentences(call.source_text)[2] = ret.value.extracted_assumptions[1]

\* C21: every vocabulary entry that occurs in the source text in any letter
\* case is included in domain_keywords, the upper-case entries RC, RL and
\* SIR too.
C21_CaseInsensitiveVocabulary ==
    AnalyzeReturned
        => \A n \in 1..Len(all_keywords) :
              Contains(Lower(call.source_text), Lower(all_keywords[n]))
                 => InList(all_keywords[n], ret.value.domain_keywords)

\* No pattern, keyword, vocabulary entry or structure marker matches the
\* text (the sample sentences hold no equation or parameter).
NoMatches(text) ==
    /\ \A i \in 1..Len(Sentences(text)) :
          /\ ~HasKeyword(Sentences(text)[i], assumption_keywords)
          /\ ~HasKeyword(Sentences(text)[i], constraint_keywords)
    /\ \A n \in 1..Len(all_keywords) : ~Contains(Lower(text), all_keywords[n])
    /\ ~HasKeyword(text, structure_markers)

AllCollectionsEmpty(analysis) ==
    /\ analysis.extracted_equations = << >>
    /\ analysis.extracted_parameters = << >>
    /\ analysis.extracted_assumptions = << >>
    /\ analysis.extracted_constraints = << >>
    /\ analysis.domain_keywords = << >>

\* C23: analyze_source_document returns an inventory for every input
\* string, the empty string included; for a text in which nothing matches
\* all five collections are empty and the confidence is 0.5.  (With five
\* empty collections the confidence is 0.5 unless a structure marker is
\* present, and 0.65 if one is.)
C23_NeverFails ==
    (pc # "ready" /\ call.fn = "analyze_source_document")
        => /\ ret.status = "returned"
           /\ NoMatches(call.source_text)
                 => (AllCollectionsEmpty(ret.value)
                       /\ ret.value.confidence_score = Float(1, 2))
           /\ AllCollectionsEmpty(ret.value)
                 => ret.value.confidence_score =
                      (IF HasKeyword(call.source_text, structure_markers)
                       THEN FloatAdd(Float(1, 2), Float(3, 20))
                       ELSE Float(1, 2))

\* A text of several sentences, not empty, in which nothing matches.
C23_Witness ==
    /\ AnalyzeReturned
    /\ Len(Sentences(call.source_text)) = 3
    /\ \E i \in 1..3 : Sentences(call.source_text)[i] # << >>
    /\ NoMatches(call.source_text)
    /\ AllCollectionsEmpty(ret.value)
    /\ ret.value.confidence_score = Float(1, 2)

(***************************************************************************)
(* Properties of _calculate_extraction_confidence (checked under           *)
(* SpecConfidence).                                                        *)
(***************************************************************************)
ConfidenceReturned ==
    pc = "returned" /\ call.fn = "_calculate_extraction_confidence"

\* The lower-cased text contains one of equation, formula, where, given.
HasStructureMarker(text) ==
    \E marker \in { << "e", "q", "u", "a", "t", "i", "o", "n" >>,
                    << "f", "o", "r", "m", "u", "l", "a" >>,
                    << "w", "h", "e", "r", "e" >>,
                    << "g", "i", "v", "e", "n" >> } :
        Contains(Lower(text), marker)

\* 0.2 * [flag], 0.15 * [flag]
Indicator(weight, flag) == FloatMul(weight, IF flag THEN Float(1, 1) ELSE Float(0, 1))

\* C22: the confidence is min(1.0, 0.5 + 0.2*[an equation was found] +
\* 0.15*[a parameter was found] + 0.15*[the text has a structure marker]);
\* it lies in [0.5, 1.0] and is exactly 0.5 when no signal is present.
C22_ConfidenceFormula ==
    ConfidenceReturned
        => LET sum == FloatAdd(FloatAdd(FloatAdd(Float(1, 2),
                                   Indicator(Float(1, 5), call.equations # << >>)),
                                   Indicator(Float(3, 20), call.parameters # << >>)),
                                   Indicator(Float(3, 20), HasStructureMarker(call.text)))
           IN  /\ ret.value = (IF BigCmp(sum, Float(1, 1)) > 0 THEN Float(1, 1) ELSE sum)
               /\ BigCmp(Float(1, 2), ret.value) <= 0
               /\ BigCmp(ret.value, Float(1, 1)) <= 0
               /\ (call.equations = << >> /\ call.parameters = << >>
                     /\ ~HasStructureMarker(call.text))
                        => ret.value = Float(1, 2)

\* All three signals are present and the confidence is exactly 1.0.
C22_Witness ==
    /\ ConfidenceReturned
    /\ call.equations # << >>
    /\ call.parameters # << >>
    /\ HasStructureMarker(call.text)
    /\ ret.value = Float(1, 1)

(***************************************************************************)
(* Properties of SpecSession                                               *)
(***************************************************************************)
\* The five scores of a verdict.
VerdictScores(verdict) ==
    << verdict.equation_accuracy, verdict.parameter_completeness,
       verdict.assumption_completeness, verdict.constraint_accuracy,
       verdict.overall_fidelity >>

\* C24: two calls of verify_ssd_fidelity on the same source text and the
\* same candidate document return identical verdicts: the same scores, the
\* same overall fidelity and the same missing and extra lists in the same
\* order.
C24_Idempotent ==
    \A i \in DOMAIN verdicts, j \in DOMAIN verdicts :
        (/\ verdicts[i].source_text = verdicts[j].source_text
         /\ verdicts[i].ssd_document = verdicts[j].ssd_document)
            => verdicts[i].verdict = verdicts[j].verdict

\* Within one interpreter process the two verdicts are identical, and the
\* five scores are identical in every process.
C24_SameProcessIdempotent ==
    \A i \in DOMAIN verdicts, j \in DOMAIN verdicts :
        (/\ verdicts[i].source_text = verdicts[j].source_text
         /\ verdicts[i].ssd_document = verdicts[j].ssd_document)
            => /\ verdicts[i].seed = verdicts[j].seed
                    => verdicts[i].verdict = verdicts[j].verdict
               /\ verdicts[i].verdict.status = "returned"
                    => /\ verdicts[j].verdict.status = "returned"
                       /\ VerdictScores(verdicts[i].verdict.value)
                            = VerdictScores(verdicts[j].verdict.value)

\* C25: verifications do not interfere.  Every recorded inventory is the
\* analysis of its own source text alone, whatever the candidate document;
\* every recorded verdict is the verdict of its own pair, whatever was
\* verified before it; and the candidate document is left as it was passed.
C25_NoInterference ==
    \A i \in DOMAIN verdicts :
        /\ verdicts[i].inventory
              = AnalyzeSourceDocument(verdicts[i].source_text, verdicts[i].seed)
        /\ verdicts[i].verdict
              = VerifySsdFidelity(verdicts[i].source_text, verdicts[i].ssd_document,
                                  verdicts[i].seed)
        /\ verdicts[i].document_after = verdicts[i].ssd_document
        /\ \A j \in DOMAIN verdicts :
              (/\ verdicts[i].source_text = verdicts[j].source_text
               /\ verdicts[i].seed = verdicts[j].seed)
                 => verdicts[i].inventory = verdicts[j].inventory

\* Two different pairs were verified one after the other by the same
\* process, and the second verdict reports missing elements.
C25_Witness ==
    /\ Len(verdicts) = 2
    /\ verdicts[1].source_text # verdicts[2].source_text
    /\ verdicts[1].ssd_document # verdicts[2].ssd_document
    /\ verdicts[1].seed = verdicts[2].seed
    /\ verdicts[1].verdict # verdicts[2].verdict
    /\ verdicts[2].verdict.status = "returned"
    /\ verdicts[2].verdict.value.missing_elements # << >>

(***************************************************************************)
(* Properties of DiversityManager (checked under SpecDiversity).           *)
(***************************************************************************)
\* subcategory_counts[key], 0 for a key never counted.
CountOf(counts, key) == IF key \in DOMAIN counts THEN counts[key] ELSE 0

RECURSIVE SumOver(_, _)
SumOver(counts, keys) ==
    IF keys = { } THEN 0
    ELSE LET key == CHOOSE k \in keys : TRUE
         IN  counts[key] + SumOver(counts, keys \ { key })

\* The calls served from the queue built by the same (re)build as call n.
SameBuild(n, m) ==
    \A k \in 1..Len(targets) :
        (k > n /\ k <= m) \/ (k > m /\ k <= n) => ~targets[k].rebuilt

\* C30: over a catalog with at least one pair, every (domain, subcategory)
\* pair is returned exactly once between two rebuilds of the queue, the
\* queue is rebuilt only when it is empty, and after any number of calls the
\* per-pair counts in subcategory_counts differ by at most 1 and sum to the
\* number of calls.
C30_FairRotation ==
    (call.fn = "get_next_domain_target")
        => LET pairs == CatalogPairs(diversity.domain_catalog)
               size  == Len(pairs)
               keys  == { SubcategoryKey(pairs[k][1], pairs[k][2]) : k \in 1..size }
               counts == diversity.subcategory_counts
           IN  /\ \A n \in 1..Len(targets) :
                     /\ \E k \in 1..size : targets[n].target = pairs[k]
                     /\ targets[n].rebuilt <=> (n > 1 /\ (n - 1) % size = 0)
                     /\ \A m \in 1..Len(targets) :
                           (n # m /\ SameBuild(n, m))
                              => targets[n].target # targets[m].target
               /\ \A n \in 1..Len(targets) :
                     (n % size = 0)
                        => \A k \in 1..size :
                              \E m \in (n - size + 1)..n : targets[m].target = pairs[k]
               /\ Len(diversity.domain_queue) = (size - (Len(targets) % size)) % size
                     \/ (Len(targets) = 0 /\ Len(diversity.domain_queue) = size)
               /\ DOMAIN counts \subseteq keys
               /\ \A a \in keys, b \in keys :
                     CountOf(counts, a) - CountOf(counts, b) \in { -1, 0, 1 }
               /\ SumOver(counts, DOMAIN counts) = Len(targets)
               /\ SumOver(diversity.domain_counts, DOMAIN diversity.domain_counts)
                     = Len(targets)

\* A catalog of three pairs has been cycled through twice and a third
\* cycle has begun: the counts are 3, 2 and 2.
C30_Witness ==
    /\ call.fn = "get_next_domain_target"
    /\ Len(CatalogPairs(diversity.domain_catalog)) = 3
    /\ Len(targets) = 7
    /\ targets[4].rebuilt
    /\ targets[7].rebuilt
    /\ targets[4].target # targets[1].target
    /\ \E key \in DOMAIN diversity.subcategory_counts :
          diversity.subcategory_counts[key] = 3

(***************************************************************************)
(* Properties of generate_dataset (checked under SpecGenerate).            *)
(***************************************************************************)
\* C29: the generation loop stops as soon as 15 consecutive samples have
\* failed, whatever the kind of failure: once consecutive_failures has
\* reached 15 the loop takes no further sample.
C29_StopsAtLimit ==
    (call.fn = "generate_dataset" /\ gen # NoLoop
        /\ gen.consecutive_failures >= max_consecutive_failures)
        => pc \in { "summary", "returned" }

\* The part of C29 that holds: every failed sample adds one to the counter,
\* and the counter returns to 0 only by accepting and writing an entry.
C29_ResetOnlyOnAccept ==
    [][(call.fn = "generate_dataset" /\ gen # NoLoop /\ gen' # gen)
          => /\ (gen'.consecutive_failures = 0
                   <=> (gen'.generated = gen.generated + 1
                          /\ Len(f_out') = Len(f_out) + 1))
             /\ gen'.consecutive_failures \in { 0, gen.consecutive_failures + 1 }]_vars
====
